---- MODULE Spec2Model ----
(***************************************************************************)
(* Model of the OneClickMatic gas-data aggregator (PolygonGasAPI), of its   *)
(* two response normalizers and of the wallet (WalletConnection),          *)
(* src/src/lib/polygonGasApi.ts; of the gas optimizer (GasOptimizer),      *)
(* src/src/lib/gasOptimizer.ts; and of the state the hooks of              *)
(* src/src/hooks/useWalletAndGas.tsx keep of them.                         *)
(*                                                                         *)
(* Numbers are JavaScript numbers restricted to the rationals plus NaN:    *)
(* a number is [nan |-> FALSE, n |-> numerator, d |-> denominator > 0] in  *)
(* lowest terms, NaN is [nan |-> TRUE].  The factors 0.8 and 1.2 and the   *)
(* divisor 100 are exact in this representation; on the integers the       *)
(* normalizers handle, Math.floor(x * 0.8) and Math.ceil(x * 1.2) computed *)
(* in IEEE doubles agree with the exact values.  The optimizer's numbers   *)
(* are IEEE doubles, computed with their rounding.                         *)
(***************************************************************************)
EXTENDS Integers, Sequences, FiniteSets, TLC

-----------------------------------------------------------------------------
(* JavaScript values and arithmetic used by the normalizers                *)

Null == [null |-> TRUE]

Undefined == [t |-> "undefined"]

Str(chars) == [t |-> "string", s |-> chars]

Obj(fields) == [t |-> "object", f |-> fields]

NaN == [nan |-> TRUE]

Abs(k) == IF k < 0 THEN -k ELSE k

RECURSIVE GCD(_, _)
GCD(a, b) == IF b = 0 THEN a ELSE GCD(b, a % b)

Rat(num, den) ==
    LET s == IF den < 0 THEN -1 ELSE 1
        g == GCD(Abs(num), Abs(den))
    IN  [nan |-> FALSE, n |-> (s * num) \div g, d |-> (s * den) \div g]

Num(k) == [nan |-> FALSE, n |-> k, d |-> 1]

IsNaN(x) == x.nan

JsSub(a, b) ==
    IF a.nan \/ b.nan THEN NaN ELSE Rat(a.n * b.d - b.n * a.d, a.d * b.d)

JsMul(a, b) ==
    IF a.nan \/ b.nan THEN NaN ELSE Rat(a.n * b.n, a.d * b.d)

\* a / b for a divisor b that is a non-zero number
JsDiv(a, b) ==
    IF a.nan \/ b.nan THEN NaN ELSE Rat(a.n * b.d, a.d * b.n)

\* a < b and a <= b: false as soon as one side is NaN
JsLt(a, b) == ~a.nan /\ ~b.nan /\ a.n * b.d < b.n * a.d

JsLe(a, b) == ~a.nan /\ ~b.nan /\ a.n * b.d <= b.n * a.d

MathMin(a, b) ==
    IF a.nan \/ b.nan THEN NaN ELSE IF JsLt(b, a) THEN b ELSE a

MathMax(a, b) ==
    IF a.nan \/ b.nan THEN NaN ELSE IF JsLt(a, b) THEN b ELSE a

MathFloor(a) == IF a.nan THEN NaN ELSE Num(a.n \div a.d)

MathCeil(a) == IF a.nan THEN NaN ELSE Num(-((-a.n) \div a.d))

Digits == <<"0", "1", "2", "3", "4", "5", "6", "7", "8", "9">>

IsDigit(c) == \E i \in 1..10 : Digits[i] = c

DigitVal(c) == (CHOOSE i \in 1..10 : Digits[i] = c) - 1

RECURSIVE SkipSpace(_)
SkipSpace(s) ==
    IF s # <<>> /\ Head(s) = " " THEN SkipSpace(Tail(s)) ELSE s

\* the longest prefix of decimal digits of s, as a number; NaN if it is empty
RECURSIVE ParseDigits(_, _, _)
ParseDigits(s, acc, seen) ==
    IF s # <<>> /\ IsDigit(Head(s))
    THEN ParseDigits(Tail(s), acc * 10 + DigitVal(Head(s)), TRUE)
    ELSE IF seen THEN Num(acc) ELSE NaN

\* parseInt(v) without a radix, for v undefined or a string with no 0x prefix:
\* leading blanks are skipped, a sign is read, then the longest digit prefix;
\* whatever follows the digits is ignored.  ToString(undefined) has no digits.
ParseInt(v) ==
    IF v.t # "string" THEN NaN
    ELSE LET s    == SkipSpace(v.s)
             sign == s # <<>> /\ Head(s) \in {"-", "+"}
             r    == ParseDigits(IF sign THEN Tail(s) ELSE s, 0, FALSE)
         IN  IF r.nan THEN NaN
             ELSE IF sign /\ Head(s) = "-" THEN Num(-r.n) ELSE r

\* the outcome of a call: a returned value or a thrown error
Ok(v) == [ok |-> TRUE, value |-> v]

Thrown(e) == [ok |-> FALSE, error |-> e]

-----------------------------------------------------------------------------
(* IEEE 754 double precision, for the optimizer's arithmetic               *)
(*                                                                         *)
(* A double that is not NaN is [nan |-> FALSE, neg, m, e]: the number      *)
(* (-1)^neg * m * 2^e, where m is a natural number below 2^53 written as   *)
(* a sequence of limbs in base 2^15, lowest first, and m is odd (zero is   *)
(* m = <<>>, e = 0).  Each operation computes the exact result and rounds  *)
(* it to 53 significant bits, ties to even.  Infinities, subnormals and    *)
(* negative zero do not occur for the magnitudes the optimizer handles.    *)

Limb == 32768

Precision == 53

RECURSIVE BnNorm(_)
BnNorm(a) ==
    IF a # <<>> /\ a[Len(a)] = 0 THEN BnNorm(SubSeq(a, 1, Len(a) - 1)) ELSE a

RECURSIVE BnFromNat(_)
BnFromNat(k) == IF k = 0 THEN <<>> ELSE <<k % Limb>> \o BnFromNat(k \div Limb)

BnRest(a) == IF a = <<>> THEN <<>> ELSE Tail(a)

BnLow(a) == IF a = <<>> THEN 0 ELSE Head(a)

RECURSIVE BnAddC(_, _, _)
BnAddC(a, b, c) ==
    IF a = <<>> /\ b = <<>> THEN (IF c = 0 THEN <<>> ELSE <<c>>)
    ELSE LET t == BnLow(a) + BnLow(b) + c
         IN  <<t % Limb>> \o BnAddC(BnRest(a), BnRest(b), t \div Limb)

BnAdd(a, b) == BnAddC(a, b, 0)

\* a - b - c for a >= b + c, before the leading zero limbs are dropped
RECURSIVE BnSubB(_, _, _)
BnSubB(a, b, c) ==
    IF a = <<>> THEN <<>>
    ELSE LET t == Head(a) - BnLow(b) - c
         IN  IF t < 0 THEN <<t + Limb>> \o BnSubB(Tail(a), BnRest(b), 1)
             ELSE <<t>> \o BnSubB(Tail(a), BnRest(b), 0)

BnSub(a, b) == BnNorm(BnSubB(a, b, 0))

\* -1, 0 or 1 as the limbs a[1..i] are below, equal to or above b[1..i]
RECURSIVE BnCmpFrom(_, _, _)
BnCmpFrom(a, b, i) ==
    IF i = 0 THEN 0
    ELSE IF a[i] < b[i] THEN -1
    ELSE IF a[i] > b[i] THEN 1
    ELSE BnCmpFrom(a, b, i - 1)

BnCmp(a, b) ==
    IF Len(a) < Len(b) THEN -1
    ELSE IF Len(a) > Len(b) THEN 1
    ELSE BnCmpFrom(a, b, Len(a))

\* a * k + c for a limb k
RECURSIVE BnMulSmall(_, _, _)
BnMulSmall(a, k, c) ==
    IF a = <<>> THEN (IF c = 0 THEN <<>> ELSE <<c>>)
    ELSE LET t == Head(a) * k + c
         IN  <<t % Limb>> \o BnMulSmall(Tail(a), k, t \div Limb)

\* a * 2^(15 * n)
RECURSIVE BnShiftLimbs(_, _)
BnShiftLimbs(a, n) ==
    IF a = <<>> \/ n = 0 THEN a ELSE <<0>> \o BnShiftLimbs(a, n - 1)

RECURSIVE BnMul(_, _)
BnMul(a, b) ==
    IF a = <<>> \/ b = <<>> THEN <<>>
    ELSE BnAdd(BnNorm(BnMulSmall(a, Head(b), 0)),
               BnShiftLimbs(BnMul(a, Tail(b)), 1))

RECURSIVE BitLenSmall(_)
BitLenSmall(k) == IF k = 0 THEN 0 ELSE 1 + BitLenSmall(k \div 2)

BnBitLen(a) ==
    IF a = <<>> THEN 0 ELSE 15 * (Len(a) - 1) + BitLenSmall(a[Len(a)])

BnOdd(a) == a # <<>> /\ Head(a) % 2 = 1

\* a * 2^k
BnShl(a, k) ==
    BnShiftLimbs(BnNorm(BnMulSmall(a, 2 ^ (k % 15), 0)), k \div 15)

\* floor(a / d) for a divisor 0 < d <= 2^15, from the highest limb down
RECURSIVE BnDivSmall(_, _, _, _)
BnDivSmall(a, d, i, r) ==
    IF i = 0 THEN <<>>
    ELSE LET t == r * Limb + a[i]
         IN  BnDivSmall(a, d, i - 1, t % d) \o <<t \div d>>

\* floor(a / 2^k)
BnShr(a, k) ==
    IF k \div 15 >= Len(a) THEN <<>>
    ELSE LET b == SubSeq(a, (k \div 15) + 1, Len(a))
         IN  BnNorm(BnDivSmall(b, 2 ^ (k % 15), Len(b), 0))

\* long division in base 2 over the bits i-1 .. 0 of the limb d, from the
\* quotient and remainder qr of the bits above them: <<quotient, remainder>>
RECURSIVE BnDivBits(_, _, _, _)
BnDivBits(d, b, i, qr) ==
    IF i = 0 THEN qr
    ELSE LET r2 == BnAddC(qr[2], qr[2], (d \div (2 ^ (i - 1))) % 2)
         IN  IF BnCmp(r2, b) >= 0
             THEN BnDivBits(d, b, i - 1,
                            << BnAddC(qr[1], qr[1], 1), BnSub(r2, b) >>)
             ELSE BnDivBits(d, b, i - 1, << BnAddC(qr[1], qr[1], 0), r2 >>)

\* the same over the limbs a[1..j], from the highest down
RECURSIVE BnDivLimbs(_, _, _, _)
BnDivLimbs(a, b, j, qr) ==
    IF j = 0 THEN qr
    ELSE BnDivLimbs(a, b, j - 1, BnDivBits(a[j], b, 15, qr))

\* <<floor(a / b), a mod b>> for b > 0
BnDivMod(a, b) == BnDivLimbs(a, b, Len(a), << <<>>, <<>> >>)

DZero == [nan |-> FALSE, neg |-> FALSE, m |-> <<>>, e |-> 0]

\* m * 2^e with the factors of two moved from m to e
RECURSIVE DCanon(_, _, _)
DCanon(neg, m, e) ==
    IF m = <<>> THEN DZero
    ELSE IF Head(m) = 0 THEN DCanon(neg, Tail(m), e + 15)
    ELSE IF Head(m) % 2 = 0 THEN DCanon(neg, BnShr(m, 1), e + 1)
    ELSE [nan |-> FALSE, neg |-> neg, m |-> m, e |-> e]

\* the double nearest to m * 2^e, or to a number just above it when sticky;
\* a sticky m has more than Precision bits
DRound(neg, m, e, sticky) ==
    LET k == BnBitLen(m) - Precision
    IN  IF k <= 0 THEN DCanon(neg, m, e)
        ELSE LET q    == BnShr(m, k)
                 rem  == BnSub(m, BnShl(q, k))
                 c    == BnCmp(rem, BnShl(<<1>>, k - 1))
                 up   == c > 0 \/ (c = 0 /\ (sticky \/ BnOdd(q)))
             IN  DCanon(neg, IF up THEN BnAdd(q, <<1>>) ELSE q, e + k)

DFromInt(k) == DCanon(k < 0, BnFromNat(Abs(k)), 0)

DNeg(a) == IF a.nan \/ a.m = <<>> THEN a ELSE [a EXCEPT !.neg = ~a.neg]

DMul(a, b) ==
    IF a.nan \/ b.nan THEN NaN
    ELSE DRound(a.neg # b.neg, BnMul(a.m, b.m), a.e + b.e, FALSE)

\* a / b for a divisor b that is a non-zero number
DDiv(a, b) ==
    IF a.nan \/ b.nan THEN NaN
    ELSE IF a.m = <<>> THEN DZero
    ELSE LET n  == BnBitLen(b.m) + Precision + 2 - BnBitLen(a.m)
             s  == IF n > 0 THEN n ELSE 0
             qr == BnDivMod(BnShl(a.m, s), b.m)
         IN  DRound(a.neg # b.neg, qr[1], a.e - s - b.e, qr[2] # <<>>)

\* the magnitudes of a and b as multiples of 2^min(a.e, b.e)
DAligned(a, b) ==
    LET e == IF a.e < b.e THEN a.e ELSE b.e
    IN  [e |-> e, a |-> BnShl(a.m, a.e - e), b |-> BnShl(b.m, b.e - e)]

DAdd(a, b) ==
    IF a.nan \/ b.nan THEN NaN
    ELSE IF a.m = <<>> THEN b
    ELSE IF b.m = <<>> THEN a
    ELSE LET al == DAligned(a, b)
             c  == BnCmp(al.a, al.b)
         IN  IF a.neg = b.neg
             THEN DRound(a.neg, BnAdd(al.a, al.b), al.e, FALSE)
             ELSE IF c = 0 THEN DZero
             ELSE IF c > 0 THEN DRound(a.neg, BnSub(al.a, al.b), al.e, FALSE)
             ELSE DRound(b.neg, BnSub(al.b, al.a), al.e, FALSE)

DSub(a, b) == DAdd(a, DNeg(b))

\* -1, 0 or 1 as a is below, equal to or above b, neither being NaN
DCmp(a, b) ==
    IF a = b THEN 0
    ELSE IF a.neg # b.neg THEN (IF a.neg THEN -1 ELSE 1)
    ELSE IF a.m = <<>> THEN (IF b.neg THEN 1 ELSE -1)
    ELSE IF b.m = <<>> THEN (IF a.neg THEN -1 ELSE 1)
    ELSE LET al == DAligned(a, b)
             c  == BnCmp(al.a, al.b)
         IN  IF a.neg THEN -c ELSE c

\* a < b, a <= b: false as soon as one side is NaN
DLt(a, b) == ~a.nan /\ ~b.nan /\ DCmp(a, b) < 0

DLe(a, b) == ~a.nan /\ ~b.nan /\ DCmp(a, b) <= 0

DMax(a, b) == IF a.nan \/ b.nan THEN NaN ELSE IF DLt(a, b) THEN b ELSE a

\* an odd m with e < 0 is not an integer
DFloor(a) ==
    IF a.nan \/ a.e >= 0 THEN a
    ELSE LET q == BnShr(a.m, -a.e)
         IN  IF a.neg THEN DCanon(TRUE, BnAdd(q, <<1>>), 0)
             ELSE DCanon(FALSE, q, 0)

DCeil(a) ==
    IF a.nan \/ a.e >= 0 THEN a
    ELSE LET q == BnShr(a.m, -a.e)
         IN  IF a.neg THEN DCanon(TRUE, q, 0)
             ELSE DCanon(FALSE, BnAdd(q, <<1>>), 0)

\* the double of a number of the normalizers: an integer, or the quotient
\* the code computed with one division
ToDouble(x) ==
    IF x.nan THEN NaN
    ELSE IF x.d = 1 THEN DFromInt(x.n)
    ELSE DDiv(DFromInt(x.n), DFromInt(x.d))

\* a decimal literal num/den of the source text
Lit(num, den) == DDiv(DFromInt(num), DFromInt(den))

\* Tenths[k] is the literal k/10: 0.2, 0.4, 0.6, 0.7, 0.8, 1.1, 1.2, 1.3
Tenths ==
    << Lit(1, 10), Lit(2, 10), Lit(3, 10), Lit(4, 10), Lit(5, 10),
       Lit(6, 10), Lit(7, 10), Lit(8, 10), Lit(9, 10), Lit(10, 10),
       Lit(11, 10), Lit(12, 10), Lit(13, 10) >>

-----------------------------------------------------------------------------
(* The normalizers                                                         *)

maxBaseFee == 100

Tiers == <<"safeLow", "standard", "fast", "fastest">>

\* Math.max written for Math.min
NetworkCongestion_Max(baseFee) ==
    MathMax(Num(1), JsDiv(baseFee, Num(maxBaseFee)))

\* Math.min(1, baseFee / maxBaseFee)
NetworkCongestion(baseFee) == MathMin(Num(1), JsDiv(baseFee, Num(maxBaseFee)))

\* data is the parsed body: an object whose four tier fields are objects with
\* maxFee and maxPriorityFee, or undefined; reading a field of an undefined
\* tier throws a TypeError.
NormalizeGasStationData(data, now) ==
    IF data.t # "object" \/ \E i \in 1..4 : data.f[Tiers[i]].t # "object"
    THEN Thrown("TypeError")
    ELSE
      LET tier(name) == data.f[name].f
          baseFee == JsSub(ParseInt(tier("standard").maxFee),
                           ParseInt(tier("standard").maxPriorityFee))
          price(name) ==
              [maxFeePerGas         |-> ParseInt(tier(name).maxFee),
               maxPriorityFeePerGas |-> ParseInt(tier(name).maxPriorityFee)]
      IN  Ok([baseFee           |-> baseFee,
              priorityFeeRange  |->
                  << ParseInt(tier("safeLow").maxPriorityFee),
                     ParseInt(tier("standard").maxPriorityFee),
                     ParseInt(tier("fast").maxPriorityFee),
                     ParseInt(tier("fastest").maxPriorityFee) >>,
              networkCongestion |-> NetworkCongestion(baseFee),
              estimatedPrices   |->
                  [safeLow  |-> price("safeLow"),
                   standard |-> price("standard"),
                   fast     |-> price("fast"),
                   fastest  |-> price("fastest")],
              source            |-> "gasStation",
              timestamp         |-> now])

\* the "fastest" tier the fallback source lacks: Math.ceil(x * 1.2)
Fastest_Shrinks(x) == MathCeil(JsMul(x, Rat(8, 10)))

Fastest(x) == MathCeil(JsMul(x, Rat(12, 10)))

\* data is the parsed body: an object with a status and a result that is
\* undefined or an object with SafeGasPrice, ProposeGasPrice, FastGasPrice.
NormalizePolygonscanData(data, now) ==
    IF data.t # "object" THEN Thrown("TypeError")
    ELSE IF data.f.status # Str(<<"1">>) \/ data.f.result.t # "object"
    THEN Thrown("Invalid response from Polygonscan API")
    ELSE
      LET result      == data.f.result.f
          safeLowGas  == ParseInt(result.SafeGasPrice)
          standardGas == ParseInt(result.ProposeGasPrice)
          fastGas     == ParseInt(result.FastGasPrice)
          baseFee     == MathFloor(JsMul(standardGas, Rat(8, 10)))
          safeLowPriorityFee  == JsSub(safeLowGas, baseFee)
          standardPriorityFee == JsSub(standardGas, baseFee)
          fastPriorityFee     == JsSub(fastGas, baseFee)
      IN  Ok([baseFee           |-> baseFee,
              priorityFeeRange  |->
                  << MathMax(Num(1), safeLowPriorityFee),
                     standardPriorityFee,
                     fastPriorityFee,
                     Fastest(fastPriorityFee) >>,
              networkCongestion |-> NetworkCongestion(baseFee),
              estimatedPrices   |->
                  [safeLow  |-> [maxFeePerGas |-> safeLowGas,
                                 maxPriorityFeePerGas |->
                                     MathMax(Num(1), safeLowPriorityFee)],
                   standard |-> [maxFeePerGas |-> standardGas,
                                 maxPriorityFeePerGas |-> standardPriorityFee],
                   fast     |-> [maxFeePerGas |-> fastGas,
                                 maxPriorityFeePerGas |-> fastPriorityFee],
                   fastest  |-> [maxFeePerGas |-> Fastest(fastGas),
                                 maxPriorityFeePerGas |->
                                     Fastest(fastPriorityFee)]],
              source            |-> "polygonscan",
              timestamp         |-> now])

-----------------------------------------------------------------------------
(* The aggregator: PolygonGasAPI.fetchGasData                              *)

refreshInterval == 15000

maxRetries == 3

\* bounds of the model
MaxCallers == 2

MaxTicks == 2

TickMs == 7500

\* the calls of fetchGasData that are pending at the same time
Callers == 1..MaxCallers

\* the promise chains alive at the same time: each is awaited by a caller
PromiseIds == 1..MaxCallers

VARIABLES
    lastFetchedData,  \* this.lastFetchedData: Null or a snapshot
    lastFetchTime,    \* this.lastFetchTime
    fetchPromise,     \* this.fetchPromise: 0 for null, else a promise id
    retryCount,       \* this.retryCount
    clock,            \* Date.now()
    promises,         \* the promise chain built by each fetch that is alive
    callers,          \* each pending call's position in fetchGasData
    lastCall,         \* history: what the latest call saw and did
    consecutive,      \* history: primary failures since the last primary
                      \* success or fallback request
    normIn,           \* a raw body handed to a normalizer on its own
    normOut,          \* what the normalizer made of normIn
    config,           \* the optimizer's this.config
    written,          \* history: the latest value written to each field
    optIn,            \* a snapshot and an intent handed to the optimizer
    optOut,           \* the latest result of optimizeGas, and as history
                      \* the policy it was computed under
    gasData,          \* the hook's gasData: Null or a snapshot
    isLoading,        \* the hook's isLoading
    error,            \* the hook's error: Null or an error
    state,            \* the wallet's this.state
    ethereum,         \* the wallet's this.ethereum: Null or the provider
    listeners,        \* the wallet's this.listeners
    window,           \* the page's window: its ethereum is the provider the
                      \* browser injected, or undefined
    walletState,      \* the wallet hook's walletState
    walletCalls,      \* the await each pending wallet call stands at
    sendResult        \* the outcome of the latest sendTransaction: Null, a
                      \* forwarded transaction or a thrown error

vars == << lastFetchedData, lastFetchTime, fetchPromise, retryCount, clock,
           promises, callers, lastCall, consecutive, normIn, normOut,
           config, written, optIn, optOut, gasData, isLoading, error,
           state, ethereum, listeners, window, walletState, walletCalls,
           sendResult >>

aggVars == << lastFetchedData, lastFetchTime, fetchPromise, retryCount, clock,
              promises, callers, lastCall, consecutive >>

normVars == << normIn, normOut >>

optVars == << config, written, optIn, optOut >>

hookVars == << gasData, isLoading, error >>

walletVars == << state, ethereum, listeners, window, walletState,
                 walletCalls, sendResult >>

\* --- upstream responses the aggregator is driven with ----------------------

Chars(k) ==
    IF k < 10 THEN << Digits[k + 1] >>
    ELSE IF k < 100 THEN << Digits[(k \div 10) + 1], Digits[(k % 10) + 1] >>
    ELSE << Digits[(k \div 100) + 1], Digits[((k \div 10) % 10) + 1],
            Digits[(k % 10) + 1] >>

GasTier(fee, prio) == Obj([maxFee |-> fee, maxPriorityFee |-> prio])

GasStationBody(sl, st, fa, fs) ==
    Obj([safeLow |-> sl, standard |-> st, fast |-> fa, fastest |-> fs])

PolygonscanBody(status, result) == Obj([status |-> status, result |-> result])

PolygonscanResult(safe, propose, fast) ==
    Obj([SafeGasPrice |-> safe, ProposeGasPrice |-> propose,
         FastGasPrice |-> fast])

HttpOk(body) == [ok |-> TRUE, body |-> body]

\* a network error or a non-success status
HttpFail == [ok |-> FALSE, body |-> Undefined]

PrimaryResponses ==
    { HttpFail,
      HttpOk(GasStationBody(GasTier(Str(Chars(30)), Str(Chars(1))),
                            GasTier(Str(Chars(32)), Str(Chars(2))),
                            GasTier(Str(Chars(35)), Str(Chars(3))),
                            GasTier(Str(Chars(40)), Str(Chars(4))))) }

FallbackResponses ==
    { HttpFail,
      HttpOk(PolygonscanBody(Str(<<"1">>),
                 PolygonscanResult(Str(Chars(30)), Str(Chars(35)),
                                   Str(Chars(40))))),
      HttpOk(PolygonscanBody(Str(<<"0">>), Undefined)) }

\* fetchFromPrimaryApi once the response has arrived
FetchFromPrimaryApi(resp, now) ==
    IF ~resp.ok THEN Thrown("HTTP error")
    ELSE NormalizeGasStationData(resp.body, now)

\* fetchFromFallbackApi once the response has arrived
FetchFromFallbackApi(resp, now) ==
    IF ~resp.ok THEN Thrown("HTTP error")
    ELSE NormalizePolygonscanData(resp.body, now)

\* --- state after construction ---------------------------------------------

\* a promise chain: its stage, the outcome it carries, and as history the
\* upstream requests it made, the primary failures it saw, the increments of
\* retryCount it made, whether it called the fallback and at which count,
\* and what its awaiters received
NoPromise ==
    [stage |-> "none", outcome |-> Null, calls |-> 0, failures |-> 0,
     increments |-> 0, fallback |-> FALSE, fallbackAt |-> 0, delivered |-> {}]

NewPromise ==
    [stage |-> "primary", outcome |-> Null, calls |-> 1, failures |-> 0,
     increments |-> 0, fallback |-> FALSE, fallbackAt |-> 0, delivered |-> {}]

IdleCaller ==
    [pc |-> "idle", p |-> 0, now |-> 0, initiator |-> FALSE, pending |-> 0]

NoCall ==
    [kind |-> "none", fresh |-> FALSE, stale |-> FALSE, pending |-> 0,
     p |-> 0, value |-> Null]

Fields == {"aggressiveness", "maxWaitTime", "minSavingsPercent", "feePercent"}

\* the policy the constructor sets when it is given no argument
DefaultConfig ==
    [aggressiveness |-> "balanced", maxWaitTime |-> 30,
     minSavingsPercent |-> 5, feePercent |-> 10]

\* the optimizer after construction, before it is handed anything
OptIdle ==
    /\ config = DefaultConfig
    /\ written = DefaultConfig
    /\ optIn = Null
    /\ optOut = Null

\* the wallet state the constructor sets, lines 322-329, which is also the
\* wallet hook's first walletState (useWalletAndGas.tsx lines 48-55)
InitialState ==
    [isConnected |-> FALSE, account |-> Null, chainId |-> Null,
     isPolygonNetwork |-> FALSE, provider |-> Null, signer |-> Null]

WalletOperations == {"initialize", "connect"}

\* a WalletConnection after construction, lines 311-333, in a hook that has
\* rendered once
WalletConstructed ==
    /\ state = InitialState
    /\ ethereum = Null
    /\ listeners = {}
    /\ walletState = InitialState
    /\ walletCalls = [op \in WalletOperations |-> "idle"]
    /\ sendResult = Null

\* a page with no wallet extension, and a wallet nobody uses
WalletIdle ==
    /\ WalletConstructed
    /\ window = [ethereum |-> Undefined]

\* useGasOptimization after its first render: lines 109-111
HookIdle ==
    /\ gasData = Null
    /\ isLoading = FALSE
    /\ error = Null

\* refreshGasData up to its await, lines 114-119
RefreshStarts ==
    /\ isLoading' = TRUE
    /\ error' = Null
    /\ UNCHANGED gasData

\* refreshGasData once fetchGasData returned data: lines 119-120 and 125
RefreshSucceeds(data) ==
    /\ gasData' = data
    /\ isLoading' = FALSE
    /\ error' = Null

\* refreshGasData once fetchGasData threw err: lines 121-126
RefreshFails(err) ==
    /\ error' = [message |-> err]
    /\ isLoading' = FALSE
    /\ UNCHANGED gasData

AggInit ==
    /\ lastFetchedData = Null
    /\ lastFetchTime = 0
    /\ fetchPromise = 0
    /\ retryCount = 0
    /\ clock = 0
    /\ promises = [p \in PromiseIds |-> NoPromise]
    /\ callers = [c \in Callers |-> IdleCaller]
    /\ lastCall = NoCall
    /\ consecutive = 0

Init ==
    /\ AggInit
    /\ normIn = Null
    /\ normOut = Null
    /\ OptIdle
    /\ HookIdle
    /\ WalletIdle

\* --- fetchGasData ----------------------------------------------------------

\* the test of lines 49-53
ServeFromCache(now) ==
    /\ lastFetchedData # Null
    /\ now - lastFetchTime < refreshInterval
    /\ fetchPromise = 0

\* the test of line 58
JoinPending_Never == FALSE

JoinPending == fetchPromise # 0

\* the test of line 70, on the incremented counter
UseFallback(count) == count > maxRetries

InFlightStages == {"primary", "retry", "fallback"}

Awaited(p) == \E c \in Callers : callers[c].pc = "awaiting" /\ callers[c].p = p

\* a promise reaction (catch handler, finally callback, resumption of an
\* await) is queued: the event loop runs these before the next task
MicrotaskPending ==
    \/ \E p \in PromiseIds : promises[p].stage \in {"catch", "finally"}
    \/ \E p \in PromiseIds : promises[p].stage = "settled" /\ Awaited(p)

LeastOf(S) == CHOOSE x \in S : \A y \in S : x <= y

\* settled promises that nothing awaits are unreachable: dropped
Collected ==
    [p \in PromiseIds |->
        IF promises[p].stage = "settled" /\ ~Awaited(p)
        THEN NoPromise ELSE promises[p]]

\* fetchGasData() is invoked: lines 46-63, up to the first await.  The call
\* takes the lowest free caller slot c.
Call(c) ==
    /\ callers[c].pc = "idle"
    /\ \A b \in Callers : b < c => callers[b].pc # "idle"
    /\ LET now == clock
           saw == [fresh   |-> /\ lastFetchedData # Null
                               /\ fetchPromise = 0
                               /\ now - lastFetchedData.timestamp < refreshInterval,
                   stale   |-> /\ lastFetchedData # Null
                               /\ fetchPromise = 0
                               /\ now - lastFetchTime >= refreshInterval,
                   pending |-> fetchPromise]
       IN  IF ServeFromCache(now)
           THEN /\ lastCall' = [kind |-> "cache", fresh |-> saw.fresh,
                                stale |-> saw.stale, pending |-> saw.pending,
                                p |-> 0, value |-> lastFetchedData]
                /\ RefreshSucceeds(lastFetchedData)
                /\ UNCHANGED << fetchPromise, promises, callers >>
           ELSE IF JoinPending
           THEN /\ callers' = [callers EXCEPT ![c] =
                       [pc |-> "awaiting", p |-> fetchPromise, now |-> now,
                        initiator |-> FALSE, pending |-> saw.pending]]
                /\ lastCall' = [kind |-> "join", fresh |-> saw.fresh,
                                stale |-> saw.stale, pending |-> saw.pending,
                                p |-> fetchPromise, value |-> Null]
                /\ RefreshStarts
                /\ UNCHANGED << fetchPromise, promises >>
           ELSE LET p == LeastOf({q \in PromiseIds : Collected[q].stage = "none"})
                IN  /\ fetchPromise' = p
                    /\ promises' = [Collected EXCEPT ![p] = NewPromise]
                    /\ callers' = [callers EXCEPT ![c] =
                           [pc |-> "awaiting", p |-> p, now |-> now,
                            initiator |-> TRUE, pending |-> saw.pending]]
                    /\ lastCall' = [kind |-> "fetch", fresh |-> saw.fresh,
                                    stale |-> saw.stale,
                                    pending |-> saw.pending,
                                    p |-> p, value |-> Null]
                    /\ RefreshStarts
    /\ UNCHANGED << lastFetchedData, lastFetchTime, retryCount, clock,
                    consecutive, normVars, optVars, walletVars >>

\* the first primary request of chain p completes (line 63)
PrimaryResponds(p) ==
    /\ promises[p].stage = "primary"
    /\ ~MicrotaskPending
    /\ \E resp \in PrimaryResponses :
         LET r == FetchFromPrimaryApi(resp, clock)
         IN  /\ promises' = [promises EXCEPT ![p].outcome = r,
                    ![p].stage = IF r.ok THEN "finally" ELSE "catch",
                    ![p].failures = IF r.ok THEN @ ELSE @ + 1]
             /\ consecutive' = IF r.ok THEN 0 ELSE consecutive + 1
    /\ UNCHANGED << lastFetchedData, lastFetchTime, fetchPromise, retryCount,
                    clock, callers, lastCall, normVars, optVars,
                    hookVars, walletVars >>

\* the catch handler of lines 64-77
CatchHandler(p) ==
    /\ promises[p].stage = "catch"
    /\ IF UseFallback(retryCount + 1)
       THEN /\ retryCount' = 0
            /\ promises' = [promises EXCEPT ![p].stage = "fallback",
                   ![p].outcome = Null, ![p].calls = @ + 1,
                   ![p].increments = @ + 1, ![p].fallback = TRUE,
                   ![p].fallbackAt = retryCount + 1]
            /\ consecutive' = 0
       ELSE /\ retryCount' = retryCount + 1
            /\ promises' = [promises EXCEPT ![p].stage = "retry",
                   ![p].outcome = Null, ![p].calls = @ + 1,
                   ![p].increments = @ + 1]
            /\ UNCHANGED consecutive
    /\ UNCHANGED << lastFetchedData, lastFetchTime, fetchPromise, clock,
                    callers, lastCall, normVars, optVars,
                    hookVars, walletVars >>

\* the primary request of line 76 completes; nothing catches its failure
RetryResponds(p) ==
    /\ promises[p].stage = "retry"
    /\ ~MicrotaskPending
    /\ \E resp \in PrimaryResponses :
         LET r == FetchFromPrimaryApi(resp, clock)
         IN  /\ promises' = [promises EXCEPT ![p].outcome = r,
                    ![p].stage = "finally",
                    ![p].failures = IF r.ok THEN @ ELSE @ + 1]
             /\ consecutive' = IF r.ok THEN 0 ELSE consecutive + 1
    /\ UNCHANGED << lastFetchedData, lastFetchTime, fetchPromise, retryCount,
                    clock, callers, lastCall, normVars, optVars,
                    hookVars, walletVars >>

\* the fallback request of line 72 completes
FallbackResponds(p) ==
    /\ promises[p].stage = "fallback"
    /\ ~MicrotaskPending
    /\ \E resp \in FallbackResponses :
         promises' = [promises EXCEPT
             ![p].outcome = FetchFromFallbackApi(resp, clock),
             ![p].stage = "finally"]
    /\ UNCHANGED << lastFetchedData, lastFetchTime, fetchPromise, retryCount,
                    clock, callers, lastCall, consecutive, normVars, optVars,
                    hookVars, walletVars >>

\* the marker cleared by a then() in place of the finally(): on success only
FinallyCallback_OnSuccess(p) ==
    /\ promises[p].stage = "finally"
    /\ fetchPromise' = IF promises[p].outcome.ok THEN 0 ELSE fetchPromise
    /\ promises' = [promises EXCEPT ![p].stage = "settled"]
    /\ UNCHANGED << lastFetchedData, lastFetchTime, retryCount, clock,
                    callers, lastCall, consecutive, normVars, optVars,
                    hookVars, walletVars >>

\* the finally callback of lines 78-80; the promise then settles
FinallyCallback(p) ==
    /\ promises[p].stage = "finally"
    /\ fetchPromise' = 0
    /\ promises' = [promises EXCEPT ![p].stage = "settled"]
    /\ UNCHANGED << lastFetchedData, lastFetchTime, retryCount, clock,
                    callers, lastCall, consecutive, normVars, optVars,
                    hookVars, walletVars >>

\* the cache emptied by a call that ends in failure
Resume_DropsCacheOnFailure(c) ==
    /\ callers[c].pc = "awaiting"
    /\ promises[callers[c].p].stage = "settled"
    /\ LET p == callers[c].p
           r == promises[p].outcome
       IN  /\ callers' = [callers EXCEPT ![c] = IdleCaller]
           /\ promises' = [promises EXCEPT ![p].delivered = @ \cup {r}]
           /\ IF callers[c].initiator /\ r.ok
              THEN /\ lastFetchedData' = r.value
                   /\ lastFetchTime' = callers[c].now
              ELSE IF r.ok THEN UNCHANGED << lastFetchedData, lastFetchTime >>
              ELSE lastFetchedData' = Null /\ lastFetchTime' = 0
           /\ IF r.ok THEN RefreshSucceeds(r.value) ELSE RefreshFails(r.error)
    /\ UNCHANGED << fetchPromise, retryCount, clock, lastCall, consecutive,
                    normVars, optVars, walletVars >>

\* caller c resumes from the promise it awaits and returns: lines 82-85 for
\* the caller that started the fetch, line 59 for one that joined it
Resume(c) ==
    /\ callers[c].pc = "awaiting"
    /\ promises[callers[c].p].stage = "settled"
    /\ LET p == callers[c].p
           r == promises[p].outcome
       IN  /\ callers' = [callers EXCEPT ![c] = IdleCaller]
           /\ promises' = [promises EXCEPT ![p].delivered = @ \cup {r}]
           /\ IF callers[c].initiator /\ r.ok
              THEN /\ lastFetchedData' = r.value
                   /\ lastFetchTime' = callers[c].now
              ELSE UNCHANGED << lastFetchedData, lastFetchTime >>
           /\ IF r.ok THEN RefreshSucceeds(r.value) ELSE RefreshFails(r.error)
    /\ UNCHANGED << fetchPromise, retryCount, clock, lastCall, consecutive,
                    normVars, optVars, walletVars >>

\* time passes between tasks
Tick ==
    /\ ~MicrotaskPending
    /\ clock < MaxTicks * TickMs
    /\ clock' = clock + TickMs
    /\ UNCHANGED << lastFetchedData, lastFetchTime, fetchPromise, retryCount,
                    promises, callers, lastCall, consecutive, normVars, optVars,
                    hookVars, walletVars >>

Next ==
    \/ \E c \in Callers : Call(c)
    \/ \E p \in PromiseIds : PrimaryResponds(p)
    \/ \E p \in PromiseIds : CatchHandler(p)
    \/ \E p \in PromiseIds : RetryResponds(p)
    \/ \E p \in PromiseIds : FallbackResponds(p)
    \/ \E p \in PromiseIds : FinallyCallback(p)
    \/ \E c \in Callers : Resume(c)
    \/ Tick

Spec == Init /\ [][Next]_vars

\* upstream requests complete, and the event loop runs queued reactions
FairSpec ==
    /\ Init /\ [][Next]_vars
    /\ WF_vars(\E p \in PromiseIds : PrimaryResponds(p))
    /\ WF_vars(\E p \in PromiseIds : RetryResponds(p))
    /\ WF_vars(\E p \in PromiseIds : FallbackResponds(p))
    /\ WF_vars(\E p \in PromiseIds : CatchHandler(p))
    /\ WF_vars(\E p \in PromiseIds : FinallyCallback(p))
    /\ WF_vars(\E c \in Callers : Resume(c))

-----------------------------------------------------------------------------
(* The normalizers on their own: a raw body is drawn, then normalized      *)

\* the fee values the raw bodies encode
FeeValues == {0, 30, 100, 130}

PriorityValues == {0, 30}

\* what a maxFee field can hold: a decimal string, text, or nothing
RawFees == {Str(Chars(k)) : k \in FeeValues} \cup {Str(<<"a", "b", "c">>), Undefined}

RawPriorityFees == {Str(Chars(k)) : k \in PriorityValues} \cup {Undefined}

RawTiers == {GasTier(f, q) : f \in RawFees, q \in RawPriorityFees} \cup {Undefined}

GasStationBodies ==
    {GasStationBody(sl, st, fa, fs) :
        sl \in RawTiers, st \in RawTiers, fa \in RawTiers, fs \in RawTiers}
    \cup {Undefined}

\* what a Polygonscan price field can hold
RawPrices == RawFees \cup {Str(<<"1", "2", "p", "x">>)}

PolygonscanBodies ==
    {PolygonscanBody(st, PolygonscanResult(a, b, c)) :
        st \in {Str(<<"1">>), Str(<<"0">>)},
        a \in RawPrices, b \in RawPrices, c \in RawPrices}
    \cup {PolygonscanBody(st, Undefined) : st \in {Str(<<"1">>), Str(<<"0">>)}}
    \cup {Undefined}

NormInit ==
    /\ AggInit
    /\ OptIdle
    /\ HookIdle
    /\ WalletIdle
    /\ normOut = Null
    /\ \/ \E b \in GasStationBodies : normIn = [kind |-> "gasStation", body |-> b]
       \/ \E b \in PolygonscanBodies : normIn = [kind |-> "polygonscan", body |-> b]

NormalizeGasStation ==
    /\ normIn.kind = "gasStation"
    /\ normOut = Null
    /\ normOut' = NormalizeGasStationData(normIn.body, clock)
    /\ UNCHANGED << aggVars, normIn, optVars, hookVars, walletVars >>

NormalizePolygonscan ==
    /\ normIn.kind = "polygonscan"
    /\ normOut = Null
    /\ normOut' = NormalizePolygonscanData(normIn.body, clock)
    /\ UNCHANGED << aggVars, normIn, optVars, hookVars, walletVars >>

NormNext == NormalizeGasStation \/ NormalizePolygonscan

NormSpec == NormInit /\ [][NormNext]_vars

-----------------------------------------------------------------------------
(* The optimizer: GasOptimizer                                             *)
(*                                                                         *)
(* The policy holds its numbers as integers; a snapshot holds them as the  *)
(* normalizers produce them; the numbers of a transaction intent and of a  *)
(* result are doubles.                                                     *)

\* this.gasLimitRecommendations[type]: undefined for a type not in the table
GasLimitRecommendations(type) ==
    CASE type = "transfer"            -> DFromInt(21000)
      [] type = "erc20Transfer"       -> DFromInt(65000)
      [] type = "swap"                -> DFromInt(200000)
      [] type = "nftMint"             -> DFromInt(250000)
      [] type = "nftTransfer"         -> DFromInt(100000)
      [] type = "contractInteraction" -> DFromInt(150000)
      [] OTHER                        -> Undefined

\* !v for v undefined or a number
Falsy(v) == IF v = Undefined THEN TRUE ELSE v.nan \/ v.m = <<>>

\* a parameter default: v = d in a destructuring pattern
OrDefault(v, d) == IF v = Undefined THEN d ELSE v

ToNumber(v) == IF v = Undefined THEN NaN ELSE v

\* the sequence s of numbers with x put before the first entry above it
RECURSIVE Insert(_, _)
Insert(x, s) ==
    IF s = <<>> THEN <<x>>
    ELSE IF DLt(x, Head(s)) THEN <<x>> \o s
    ELSE <<Head(s)>> \o Insert(x, Tail(s))

\* [...s].sort((a, b) => a - b) for a sequence of numbers
RECURSIVE SortAscending(_)
SortAscending(s) ==
    IF s = <<>> THEN <<>> ELSE Insert(Head(s), SortAscending(Tail(s)))

RECURSIVE BnToNat(_)
BnToNat(a) == IF a = <<>> THEN 0 ELSE Head(a) + Limb * BnToNat(Tail(a))

\* the integer a double holds, for a natural number below 2^31
DToInt(a) == BnToNat(a.m) * (2 ^ a.e)

\* s[index] for a double index that is a natural number: undefined past the
\* end of s
ElementAt(s, index) ==
    IF DToInt(index) < Len(s) THEN s[DToInt(index) + 1] ELSE Undefined

\* the base fee subtracted from the priority fee in place of their sum
OptimalMaxFee_Difference(baseFee, optimalPriorityFee, maxFeePadding) ==
    DCeil(DMul(DSub(optimalPriorityFee, baseFee), maxFeePadding))

\* Math.ceil((baseFee + optimalPriorityFee) * maxFeePadding), line 219
OptimalMaxFee(baseFee, optimalPriorityFee, maxFeePadding) ==
    DCeil(DMul(DAdd(baseFee, optimalPriorityFee), maxFeePadding))

\* priorityFeePercentile of the switch, lines 191-211
PriorityFeePercentile(cfg, networkCongestion) ==
    IF cfg.aggressiveness = "conservative"
    THEN (IF DLt(Tenths[7], networkCongestion) THEN Tenths[8] ELSE Tenths[6])
    ELSE IF cfg.aggressiveness = "aggressive"
    THEN (IF DLt(Tenths[8], networkCongestion) THEN Tenths[4] ELSE Tenths[2])
    ELSE (IF DLt(Tenths[7], networkCongestion) THEN Tenths[6] ELSE Tenths[4])

\* maxFeePadding of the switch
MaxFeePadding(cfg) ==
    IF cfg.aggressiveness = "conservative" THEN Tenths[13]
    ELSE IF cfg.aggressiveness = "aggressive" THEN Tenths[11]
    ELSE Tenths[12]

\* estimatedWaitTime of the switch
EstimatedWaitTime(cfg, networkCongestion) ==
    IF cfg.aggressiveness = "conservative" THEN DFromInt(15)
    ELSE IF cfg.aggressiveness = "aggressive"
    THEN (IF DLt(Tenths[8], networkCongestion) THEN DFromInt(60)
          ELSE DFromInt(30))
    ELSE (IF DLt(Tenths[7], networkCongestion) THEN DFromInt(30)
          ELSE DFromInt(20))

\* a || b
Or(a, b) == IF Falsy(a) THEN b ELSE a

\* lines 215-216: the entry of the sorted range at the percentile's index, or
\* its first entry
OptimalPriorityFee(priorityFeeRange_sorted, priorityFeePercentile) ==
    Or(ElementAt(priorityFeeRange_sorted,
                 DFloor(DMul(DFromInt(Len(priorityFeeRange_sorted)),
                             priorityFeePercentile))),
       ElementAt(priorityFeeRange_sorted, DZero))

\* lines 219-225
OptimalSettings(baseFee, optimalPriorityFee, maxFeePadding, estimatedWaitTime) ==
    [maxFeePerGas         |->
         OptimalMaxFee(baseFee, ToNumber(optimalPriorityFee), maxFeePadding),
     maxPriorityFeePerGas |-> optimalPriorityFee,
     estimatedWaitTime    |-> estimatedWaitTime]

\* calculateOptimalGasSettings, lines 177-226
CalculateOptimalGasSettings(cfg, baseFee, priorityFeeRange, networkCongestion) ==
    OptimalSettings(
        baseFee,
        OptimalPriorityFee(SortAscending(priorityFeeRange),
                           PriorityFeePercentile(cfg, networkCongestion)),
        MaxFeePadding(cfg),
        EstimatedWaitTime(cfg, networkCongestion))

\* lines 240-251, for a limit of at least 21000
KeepOrRecommend(recommendedLimit, userGasLimit) ==
    IF Falsy(recommendedLimit) THEN userGasLimit
    ELSE IF DLt(userGasLimit, DMul(recommendedLimit, Tenths[8]))
    THEN recommendedLimit
    ELSE userGasLimit

\* recommendGasLimit, lines 232-252
RecommendGasLimit(transactionType, userGasLimit) ==
    IF Falsy(userGasLimit) \/ DLt(userGasLimit, DFromInt(21000))
    THEN Or(GasLimitRecommendations(transactionType), DFromInt(100000))
    ELSE KeepOrRecommend(GasLimitRecommendations(transactionType), userGasLimit)

\* estimateCost, lines 288-290
EstimateCost(maxFeePerGas, gasLimit) ==
    DDiv(DMul(maxFeePerGas, gasLimit), DFromInt(1000000000))

\* lines 273-281, from the two costs
SavingsOf(originalCost, savingsInMatic) ==
    [savingsInMatic |-> savingsInMatic,
     savingsPercent |->
         IF DLt(DZero, originalCost)
         THEN DMul(DDiv(savingsInMatic, originalCost), DFromInt(100))
         ELSE DZero]

\* Math.max(0, originalCost - optimizedCost), line 273
SavingsInMatic(originalCost, optimizedCost) ==
    DMax(DZero, DSub(originalCost, optimizedCost))

CostsSavings(originalCost, optimizedCost) ==
    SavingsOf(originalCost, SavingsInMatic(originalCost, optimizedCost))

\* calculateSavings, lines 258-282
CalculateSavings(originalMaxFee, optimizedMaxFee, gasLimit) ==
    CostsSavings(EstimateCost(originalMaxFee, gasLimit),
                 EstimateCost(optimizedMaxFee, gasLimit))

\* the fixed 10 of the page's "Our fee: 10% of your savings" for the policy's
Fee_TenPercent(cfg, savingsInMatic) ==
    IF DLt(DZero, savingsInMatic)
    THEN DDiv(DMul(savingsInMatic, DFromInt(10)), DFromInt(100))
    ELSE DZero

\* the service fee of lines 135-137
Fee(cfg, savingsInMatic) ==
    IF DLt(DZero, savingsInMatic)
    THEN DDiv(DMul(savingsInMatic, DFromInt(cfg.feePercent)), DFromInt(100))
    ELSE DZero

\* || written for &&
ShouldOptimize_Either(cfg, savingsPercent, estimatedWaitTime) ==
    \/ DLe(DFromInt(cfg.minSavingsPercent), savingsPercent)
    \/ DLe(estimatedWaitTime, DFromInt(cfg.maxWaitTime))

\* shouldOptimize, lines 296-304
ShouldOptimize(cfg, savingsPercent, estimatedWaitTime) ==
    /\ DLe(DFromInt(cfg.minSavingsPercent), savingsPercent)
    /\ DLe(estimatedWaitTime, DFromInt(cfg.maxWaitTime))

\* the congestion clause left out of the first test
DetermineSavingsLevel_NoCongestion(savingsPercent, networkCongestion) ==
    IF DLt(DFromInt(20), savingsPercent) THEN "high"
    ELSE IF DLe(DFromInt(10), savingsPercent) THEN "medium"
    ELSE IF DLe(DFromInt(5), savingsPercent) THEN "low"
    ELSE "none"

\* determineSavingsLevel, lines 310-331
DetermineSavingsLevel(savingsPercent, networkCongestion) ==
    IF \/ DLt(DFromInt(20), savingsPercent)
       \/ DLt(Tenths[7], networkCongestion) /\ DLt(DFromInt(10), savingsPercent)
    THEN "high"
    ELSE IF DLe(DFromInt(10), savingsPercent) THEN "medium"
    ELSE IF DLe(DFromInt(5), savingsPercent) THEN "low"
    ELSE "none"

\* the result of lines 145-170
OptimizationResult(cfg, networkCongestion, userGasLimit, userMaxFee, userPriorityFee, optimizedSettings, recommendedGasLimit, savings, fee) ==
    [original |->
        [maxFeePerGas         |-> userMaxFee,
         maxPriorityFeePerGas |-> userPriorityFee,
         gasLimit             |-> userGasLimit,
         estimatedCostInMatic |-> EstimateCost(userMaxFee, userGasLimit)],
     optimized |->
        [maxFeePerGas         |-> optimizedSettings.maxFeePerGas,
         maxPriorityFeePerGas |-> optimizedSettings.maxPriorityFeePerGas,
         gasLimit             |-> recommendedGasLimit,
         estimatedCostInMatic |->
             EstimateCost(optimizedSettings.maxFeePerGas, recommendedGasLimit),
         estimatedWaitTime    |-> optimizedSettings.estimatedWaitTime],
     savings |->
        [savingsInMatic |-> savings.savingsInMatic,
         savingsPercent |-> savings.savingsPercent,
         savingsLevel   |->
             DetermineSavingsLevel(savings.savingsPercent, networkCongestion)],
     fee |-> [feeInMatic |-> fee, feePercent |-> cfg.feePercent],
     netSavings     |-> DSub(savings.savingsInMatic, fee),
     shouldOptimize |->
         ShouldOptimize(cfg, savings.savingsPercent,
                        optimizedSettings.estimatedWaitTime)]

\* lines 134-170, the savings known
WithSavings(cfg, networkCongestion, userGasLimit, userMaxFee, userPriorityFee, optimizedSettings, recommendedGasLimit, savings) ==
    OptimizationResult(cfg, networkCongestion, userGasLimit, userMaxFee,
                       userPriorityFee, optimizedSettings, recommendedGasLimit,
                       savings, Fee(cfg, savings.savingsInMatic))

\* lines 127-170, the optimal settings and the gas limit known
WithSettings(cfg, networkCongestion, userGasLimit, userMaxFee, userPriorityFee, optimizedSettings, recommendedGasLimit) ==
    WithSavings(cfg, networkCongestion, userGasLimit, userMaxFee,
                userPriorityFee, optimizedSettings, recommendedGasLimit,
                CalculateSavings(userMaxFee, optimizedSettings.maxFeePerGas,
                                 recommendedGasLimit))

\* lines 117-170, the parameters destructured
WithDetails(cfg, baseFee, priorityFeeRange, networkCongestion, type, userGasLimit, userMaxFee, userPriorityFee) ==
    WithSettings(cfg, networkCongestion, userGasLimit, userMaxFee,
                 userPriorityFee,
                 CalculateOptimalGasSettings(cfg, baseFee, priorityFeeRange,
                                             networkCongestion),
                 RecommendGasLimit(type, userGasLimit))

\* optimizeGas, lines 107-171, under the policy cfg
OptimizeGas(cfg, currentGasData, transactionDetails) ==
    WithDetails(cfg,
                ToDouble(currentGasData.baseFee),
                [i \in 1..Len(currentGasData.priorityFeeRange) |->
                    ToDouble(currentGasData.priorityFeeRange[i])],
                ToDouble(currentGasData.networkCongestion),
                transactionDetails.type,
                OrDefault(transactionDetails.gasLimit, DFromInt(21000)),
                OrDefault(transactionDetails.maxFeePerGas, DZero),
                OrDefault(transactionDetails.maxPriorityFeePerGas, DZero))

\* the fields not supplied reset to the defaults
MergeConfig_OverDefaults(cfg, newConfig) ==
    [f \in Fields |->
        IF f \in DOMAIN newConfig THEN newConfig[f] ELSE DefaultConfig[f]]

\* { ...this.config, ...newConfig } of updateConfig, lines 336-341
MergeConfig(cfg, newConfig) ==
    [f \in Fields |->
        IF f \in DOMAIN newConfig THEN newConfig[f] ELSE cfg[f]]

\* --- the optimizer on its own: an input is drawn, the policy is updated and
\* --- the input evaluated in any order

\* the partial policies updateConfig is called with
ConfigUpdates ==
    {[aggressiveness |-> a] : a \in {"conservative", "balanced", "aggressive"}}
    \cup {[maxWaitTime |-> 15, minSavingsPercent |-> 20, feePercent |-> 100],
          [maxWaitTime |-> 30, minSavingsPercent |-> 5, feePercent |-> 150],
          [maxWaitTime |-> 30, minSavingsPercent |-> 0, feePercent |-> 10]}

GasData(baseFee, range, congestion) ==
    [baseFee |-> Num(baseFee),
     priorityFeeRange |-> [i \in 1..Len(range) |-> Num(range[i])],
     networkCongestion |-> congestion]

\* an absent field is undefined
Intent(type, gasLimit, maxFeePerGas) ==
    [type |-> type,
     gasLimit |-> IF gasLimit = -1 THEN Undefined ELSE DFromInt(gasLimit),
     maxFeePerGas |->
         IF maxFeePerGas = -1 THEN Undefined ELSE DFromInt(maxFeePerGas),
     maxPriorityFeePerGas |->
         IF maxFeePerGas = -1 THEN Undefined ELSE DFromInt(5)]

BaseFees == {48, 50}

Congestions == {Rat(1, 2), Rat(7, 10), Rat(3, 4), Rat(4, 5), Rat(9, 10)}

\* snapshots of varying fee levels, each with one intent
SnapshotInputs ==
    {[gasData |-> GasData(b, r, c), tx |-> Intent("transfer", 21000, 80)] :
        b \in BaseFees, r \in {<<4, 2, 3, 1>>, <<0, 7>>}, c \in Congestions}

\* intents of every type and of gas limits around the thresholds, each with
\* one snapshot
LimitInputs ==
    {[gasData |-> GasData(50, <<1, 2, 3, 4>>, Rat(1, 2)),
      tx |-> Intent(t, g, 80)] :
        t \in {"transfer", "erc20Transfer", "swap", "stake"},
        g \in {-1, 10000, 51999, 52000}}
    \cup
    {[gasData |-> GasData(50, <<1, 2, 3, 4>>, Rat(1, 2)),
      tx |-> Intent(t, -1, 80)] :
        t \in {"nftMint", "nftTransfer", "contractInteraction"}}

\* intents of varying original fees
FeeInputs ==
    {[gasData |-> GasData(50, <<1, 2, 3, 4>>, c),
      tx |-> Intent("transfer", 21000, f)] :
        f \in {-1, 63, 66, 67, 70, 109}, c \in {Rat(1, 2), Rat(3, 4)}}

\* the snapshot normalizeGasStationData returns for a standard maxFee that
\* is no number: baseFee and networkCongestion are NaN
MalformedInputs ==
    {[gasData |-> [baseFee |-> NaN,
                   priorityFeeRange |-> [i \in 1..4 |-> Num(i)],
                   networkCongestion |-> NaN],
      tx |-> Intent("transfer", 21000, 80)]}

\* a snapshot whose priorityFeeRange has no entry
EmptyRangeInputs ==
    {[gasData |-> GasData(50, << >>, Rat(1, 2)),
      tx |-> Intent("transfer", 21000, 80)]}

\* Gas Station bodies: ordinary fees at low and at high congestion, priority
\* fees of zero, a standard maxFee that is no number, a negative priority fee
HomePageBodies ==
    {GasStationBody(GasTier(Str(Chars(31)), Str(Chars(1))),
                    GasTier(Str(Chars(st)), Str(Chars(2))),
                    GasTier(Str(Chars(st + 11)), Str(Chars(3))),
                    GasTier(Str(Chars(st + 22)), Str(Chars(4)))) :
        st \in {52, 92}}
    \cup
    {GasStationBody(GasTier(Str(Chars(30)), Str(Chars(0))),
                    GasTier(Str(Chars(50)), Str(Chars(0))),
                    GasTier(Str(Chars(60)), Str(Chars(0))),
                    GasTier(Str(Chars(70)), Str(Chars(0)))),
     GasStationBody(GasTier(Str(Chars(31)), Str(Chars(1))),
                    GasTier(Str(<<"a", "b", "c">>), Str(Chars(2))),
                    GasTier(Str(Chars(63)), Str(Chars(3))),
                    GasTier(Str(Chars(74)), Str(Chars(4)))),
     GasStationBody(GasTier(Str(Chars(5)), Str(<<"-", "5">>)),
                    GasTier(Str(Chars(10)), Str(Chars(0))),
                    GasTier(Str(Chars(10)), Str(Chars(0))),
                    GasTier(Str(Chars(10)), Str(Chars(0))))}

\* the intent HomePage evaluates, lines 72-77 and 89-93 of GoogleAd.tsx: a
\* transfer of 21000 gas with the snapshot's standard-tier fees
HomePageIntent(snapshot) ==
    [type |-> "transfer",
     gasLimit |-> DFromInt(21000),
     maxFeePerGas |->
         ToDouble(snapshot.estimatedPrices.standard.maxFeePerGas),
     maxPriorityFeePerGas |->
         ToDouble(snapshot.estimatedPrices.standard.maxPriorityFeePerGas)]

\* HomePage's effect: the snapshot the aggregator returned for a body, with
\* the intent built from it
HomePageInputs ==
    {[gasData |-> NormalizeGasStationData(b, 0).value,
      tx |-> HomePageIntent(NormalizeGasStationData(b, 0).value)] :
        b \in HomePageBodies}

OptInputs ==
    SnapshotInputs \cup LimitInputs \cup FeeInputs \cup MalformedInputs
        \cup EmptyRangeInputs \cup HomePageInputs

OptInit ==
    /\ AggInit
    /\ normIn = Null
    /\ normOut = Null
    /\ config = DefaultConfig
    /\ written = DefaultConfig
    /\ optOut = Null
    /\ optIn \in OptInputs
    /\ HookIdle
    /\ WalletIdle

\* updateConfig(newConfig), lines 336-341
UpdateConfig(newConfig) ==
    /\ config' = MergeConfig(config, newConfig)
    /\ written' = [f \in Fields |->
                      IF f \in DOMAIN newConfig THEN newConfig[f]
                      ELSE written[f]]
    /\ UNCHANGED << aggVars, normVars, optIn, optOut, hookVars, walletVars >>

\* the caller's array sorted where it is, with no copy made
ArgumentAfterSort_InPlace(priorityFeeRange) ==
    [i \in 1..Len(priorityFeeRange) |->
        Num(DToInt(SortAscending([j \in 1..Len(priorityFeeRange) |->
                                     ToDouble(priorityFeeRange[j])])[i]))]

\* the caller's priorityFeeRange once line 214 has run: the spread makes a
\* copy and sort arranges the copy
ArgumentAfterSort(priorityFeeRange) == priorityFeeRange

\* optimizeGas(gasData, transactionDetails) is called and returns
CallOptimizeGas ==
    /\ optOut' = [result |-> OptimizeGas(config, optIn.gasData, optIn.tx),
                  policy |-> config]
    /\ optIn' = [optIn EXCEPT !.gasData.priorityFeeRange = ArgumentAfterSort(@)]
    /\ UNCHANGED << aggVars, normVars, config, written, hookVars, walletVars >>

OptNext ==
    \/ \E newConfig \in ConfigUpdates : UpdateConfig(newConfig)
    \/ CallOptimizeGas

OptSpec == OptInit /\ [][OptNext]_vars

-----------------------------------------------------------------------------
(* The wallet: WalletConnection, src/src/lib/polygonGasApi.ts.  The wallet *)
(* provider (window.ethereum) is the environment: it answers each request  *)
(* with any account list or network, or rejects it, and emits events of    *)
(* any content at any time.                                                *)

\* new ethers.providers.Web3Provider(this.ethereum)
Provider == [t |-> "Web3Provider"]

\* provider.getSigner()
Signer == [t |-> "JsonRpcSigner"]

Account(k) == [address |-> k]

ChainId(hex) == [hex |-> hex]

\* config.supportedChainIds, line 316
supportedChainIds == {"0x89", "0x13881"}

HexDigits ==
    << "0", "1", "2", "3", "4", "5", "6", "7", "8", "9",
       "a", "b", "c", "d", "e", "f" >>

\* n.toString(16)
RECURSIVE ToString16(_)
ToString16(n) ==
    IF n < 16 THEN HexDigits[n + 1]
    ELSE ToString16(n \div 16) \o HexDigits[(n % 16) + 1]

\* the account lists the provider answers with or announces
AccountLists == {<< >>, << Account(1) >>, << Account(2), Account(1) >>}

\* the networks getNetwork reports: Polygon, Mumbai, Ethereum
Networks == {137, 80001, 1}

\* the chain ids the provider announces
AnnouncedChainIds == {"0x89", "0x1"}

\* the answers to a request for accounts
AccountAnswers == {Ok(l) : l \in AccountLists} \cup {Thrown("request rejected")}

NetworkAnswers == {Ok(n) : n \in Networks} \cup {Thrown("request rejected")}

\* a field of TransactionParams: absent, a hex string of a number, an empty
\* string, or text that is no number
HexString(k) == [hex |-> k]

Truthy(v) == v # Undefined /\ v # Str(<< >>)

\* ethers.BigNumber.from(v)
BigNumberFrom(v) ==
    IF "hex" \in DOMAIN v THEN Ok(v.hex) ELSE Thrown("invalid BigNumber string")

NumericFields == {"value", "gasLimit", "maxFeePerGas", "maxPriorityFeePerGas"}

TxParams(value, gasLimit, maxFeePerGas) ==
    [to |-> Account(2), from |-> Account(1), value |-> value,
     data |-> Undefined, gasLimit |-> gasLimit,
     maxFeePerGas |-> maxFeePerGas, maxPriorityFeePerGas |-> maxFeePerGas]

TransactionParams ==
    {TxParams(Undefined, Undefined, Undefined),
     TxParams(HexString(1), HexString(21000), HexString(60)),
     TxParams(Str(<<"a", "b", "c">>), HexString(21000), HexString(60)),
     TxParams(Str(<< >>), Undefined, HexString(60))}

\* the transaction object built by lines 568-592: to and from, and each
\* other field that is truthy
BuildTransaction(txParams) ==
    IF \E f \in NumericFields :
           Truthy(txParams[f]) /\ ~BigNumberFrom(txParams[f]).ok
    THEN Thrown("invalid BigNumber string")
    ELSE Ok([f \in {"to", "from"} \cup
                   {g \in NumericFields \cup {"data"} : Truthy(txParams[g])} |->
                IF f \in NumericFields THEN BigNumberFrom(txParams[f]).value
                ELSE txParams[f]])

\* the guards of sendTransaction without the network test
Refusal_NoNetworkTest(s) ==
    IF ~s.isConnected \/ s.signer = Null THEN Thrown("Wallet not connected")
    ELSE Null

\* the guards of sendTransaction, lines 559-565: the error thrown in wallet
\* state s, or Null
Refusal(s) ==
    IF ~s.isConnected \/ s.signer = Null THEN Thrown("Wallet not connected")
    ELSE IF ~s.isPolygonNetwork THEN Thrown("Not connected to Polygon network")
    ELSE Null

\* account and isConnected as lines 358-359, 401-402 and 480-481 set them
WithAccounts(s, accounts) ==
    [s EXCEPT !.account = IF Len(accounts) > 0 THEN accounts[1] ELSE Null,
              !.isConnected = Len(accounts) > 0]

\* notifyListeners, lines 522-526: the hook's listener stores a copy
NotifyListeners ==
    walletState' = IF listeners # {} THEN state' ELSE walletState

\* addStateListener, lines 533-543, called by the hook's effect
AddStateListener ==
    /\ listeners = {}
    /\ listeners' = {"setWalletState"}
    /\ walletState' = state
    /\ UNCHANGED << state, ethereum, window, walletCalls, sendResult,
                    aggVars, normVars, optVars, hookVars >>

\* initialize up to its first await, lines 341-357, for the pending call op
StartInitialize(op) ==
    IF window.ethereum = Undefined
    THEN UNCHANGED << state, ethereum, walletCalls >>
    ELSE /\ ethereum' = window.ethereum
         /\ state' = [state EXCEPT !.provider = Provider]
         /\ walletCalls' = [walletCalls EXCEPT ![op] = "listAccounts"]

\* where call op goes on once its initialize has returned: connect requests
\* the accounts (lines 389-397), initialize is done
AfterInitialize(op) == IF op = "connect" THEN "requestAccounts" ELSE "idle"

\* initialize() is called
Initialize ==
    /\ walletCalls["initialize"] = "idle"
    /\ StartInitialize("initialize")
    /\ UNCHANGED << listeners, window, walletState, sendResult,
                    aggVars, normVars, optVars, hookVars >>

\* connect() is called, lines 388-397
Connect ==
    /\ walletCalls["connect"] = "idle"
    /\ IF ethereum = Null
       THEN StartInitialize("connect")
       ELSE /\ walletCalls' = [walletCalls EXCEPT !["connect"] = "requestAccounts"]
            /\ UNCHANGED << state, ethereum >>
    /\ UNCHANGED << listeners, window, walletState, sendResult,
                    aggVars, normVars, optVars, hookVars >>

\* provider.listAccounts() settles, lines 357-359 and the catch of 377-380
ListAccountsSettles(op) ==
    /\ walletCalls[op] = "listAccounts"
    /\ \E r \in AccountAnswers :
         IF r.ok
         THEN /\ state' = WithAccounts(state, r.value)
              /\ walletCalls' = [walletCalls EXCEPT ![op] = "getNetwork"]
         ELSE /\ walletCalls' = [walletCalls EXCEPT ![op] = AfterInitialize(op)]
              /\ UNCHANGED state
    /\ UNCHANGED << ethereum, listeners, window, walletState, sendResult,
                    aggVars, normVars, optVars, hookVars >>

\* provider.getNetwork() settles, lines 362-380
GetNetworkSettles(op) ==
    /\ walletCalls[op] = "getNetwork"
    /\ walletCalls' = [walletCalls EXCEPT ![op] = AfterInitialize(op)]
    /\ \E r \in NetworkAnswers :
         IF r.ok
         THEN /\ state' = [state EXCEPT
                     !.chainId = ChainId("0x" \o ToString16(r.value)),
                     !.isPolygonNetwork =
                         ("0x" \o ToString16(r.value)) \in supportedChainIds,
                     !.signer = IF state.isConnected THEN Signer ELSE @]
              /\ NotifyListeners
         ELSE UNCHANGED << state, walletState >>
    /\ UNCHANGED << ethereum, listeners, window, sendResult,
                    aggVars, normVars, optVars, hookVars >>

\* the eth_requestAccounts request of connect settles, lines 396-415
RequestAccountsSettles ==
    /\ walletCalls["connect"] = "requestAccounts"
    /\ walletCalls' = [walletCalls EXCEPT !["connect"] = "idle"]
    /\ \E r \in AccountAnswers :
         IF r.ok
         THEN /\ state' =
                   [WithAccounts(state, r.value) EXCEPT
                       !.signer = IF Len(r.value) > 0 /\ state.provider # Null
                                  THEN Signer ELSE @]
              /\ NotifyListeners
         ELSE UNCHANGED << state, walletState >>
    /\ UNCHANGED << ethereum, listeners, window, sendResult,
                    aggVars, normVars, optVars, hookVars >>

\* the accountsChanged handler, lines 479-491
AccountsChanged(accounts) ==
    /\ ethereum # Null
    /\ state' = [WithAccounts(state, accounts) EXCEPT
                    !.signer = IF Len(accounts) > 0 /\ state.provider # Null
                               THEN Signer ELSE Null]
    /\ NotifyListeners
    /\ UNCHANGED << ethereum, listeners, window, walletCalls, sendResult,
                    aggVars, normVars, optVars, hookVars >>

\* the chainChanged handler, lines 494-507
ChainChanged(chainId) ==
    /\ ethereum # Null
    /\ state' = [state EXCEPT
                    !.chainId = ChainId(chainId),
                    !.isPolygonNetwork = chainId \in supportedChainIds,
                    !.provider = Provider,
                    !.signer = IF state.isConnected THEN Signer ELSE @]
    /\ NotifyListeners
    /\ UNCHANGED << ethereum, listeners, window, walletCalls, sendResult,
                    aggVars, normVars, optVars, hookVars >>

\* the disconnect handler, lines 510-515
Disconnect ==
    /\ ethereum # Null
    /\ state' = [state EXCEPT !.isConnected = FALSE, !.account = Null,
                              !.signer = Null]
    /\ NotifyListeners
    /\ UNCHANGED << ethereum, listeners, window, walletCalls, sendResult,
                    aggVars, normVars, optVars, hookVars >>

\* sendTransaction(txParams), lines 558-600, up to the signer's answer
SendTransaction(txParams) ==
    /\ sendResult' =
           IF Refusal(state) # Null THEN Refusal(state)
           ELSE IF ~BuildTransaction(txParams).ok THEN BuildTransaction(txParams)
           ELSE Ok([signer |-> state.signer,
                    transaction |-> BuildTransaction(txParams).value])
    /\ UNCHANGED << state, ethereum, listeners, window, walletState,
                    walletCalls, aggVars, normVars, optVars, hookVars >>

WalletInit ==
    /\ AggInit
    /\ normIn = Null
    /\ normOut = Null
    /\ OptIdle
    /\ HookIdle
    /\ WalletConstructed
    /\ window \in {[ethereum |-> Undefined], [ethereum |-> Obj("ethereum")]}

WalletNext ==
    \/ AddStateListener
    \/ Initialize
    \/ Connect
    \/ \E op \in WalletOperations : ListAccountsSettles(op)
    \/ \E op \in WalletOperations : GetNetworkSettles(op)
    \/ RequestAccountsSettles
    \/ \E accounts \in AccountLists : AccountsChanged(accounts)
    \/ \E chainId \in AnnouncedChainIds : ChainChanged(chainId)
    \/ Disconnect
    \/ \E txParams \in TransactionParams : SendTransaction(txParams)

WalletSpec == WalletInit /\ [][WalletNext]_vars

-----------------------------------------------------------------------------
(* Properties of the aggregator                                            *)

InFlight == {p \in PromiseIds : promises[p].stage \in InFlightStages}

Done(p) == promises[p].stage \in {"finally", "settled"}

\* the latest call joined chain p, which is still the chain it joined
Joined(p) == lastCall.kind = "join" /\ lastCall.p = p

\* C1: at most one upstream request (primary, primary retry or fallback) is
\* in flight at any time, and a call made while a fetch is pending awaits
\* the pending promise and starts nothing.
C1_SingleFlight ==
    /\ Cardinality(InFlight) <= 1
    /\ \A c \in Callers :
         callers[c].pc = "awaiting" /\ callers[c].pending # 0
            => callers[c].p = callers[c].pending /\ ~callers[c].initiator
    /\ lastCall.pending # 0 => lastCall.kind = "join"

C1_Witness ==
    \E c \in Callers :
        /\ callers[c].pc = "awaiting"
        /\ ~callers[c].initiator
        /\ promises[callers[c].p].stage \in InFlightStages

\* C2 as stated: a fetch that callers joined makes exactly one upstream HTTP
\* call in total and hands every caller the same snapshot or the same error.
C2_ExactlyOneCall ==
    \A p \in PromiseIds :
        promises[p].stage = "settled" /\ Joined(p) /\ ~Awaited(p)
            => /\ promises[p].calls = 1
               /\ promises[p].delivered = {promises[p].outcome}

\* C2 amended: calls that join a fetch add no upstream call.  The fetch makes
\* one upstream call when its primary request succeeds and two (the primary,
\* then one primary retry or the fallback) when it fails, however many
\* callers joined, and every caller receives the one outcome of the fetch.
C2_JoinersAddNoCall ==
    /\ \A p \in PromiseIds :
         /\ Done(p) =>
              promises[p].calls = IF promises[p].failures = 0 THEN 1 ELSE 2
         /\ promises[p].delivered \subseteq {promises[p].outcome}
         /\ promises[p].delivered # {} => promises[p].stage = "settled"
    /\ \A c \in Callers :
         callers[c].pc = "awaiting" /\ callers[c].pending # 0
            => callers[c].p = callers[c].pending

C2_Witness ==
    \E p \in PromiseIds :
        /\ promises[p].stage = "settled"
        /\ Joined(p) /\ ~Awaited(p)
        /\ promises[p].calls = 2
        /\ promises[p].delivered = {promises[p].outcome}

\* C3: a call made while a stored snapshot is younger than refreshInterval,
\* counted from the instant the snapshot was created, and no fetch is in
\* flight, returns that snapshot and makes no upstream request.
C3_FreshServedFromCache ==
    lastCall.fresh => lastCall.kind = "cache"

\* C4: with maxRetries+1 consecutive primary failures behind it, the next
\* upstream request is the fallback, never the primary; and the retry
\* counter is zero once the fallback request was made, whatever its result.
C4_FallbackAfterFailures ==
    \A p \in PromiseIds :
        /\ promises[p].stage \in {"primary", "retry"}
              => consecutive <= maxRetries
        /\ promises[p].fallback /\ promises[p].stage \in {"fallback", "finally"}
              => retryCount = 0

\* C5: every failed primary attempt increments the retry counter and is
\* followed by another primary attempt while the counter is at most
\* maxRetries; the fallback is called exactly when the counter exceeds
\* maxRetries, and the counter is then reset.
C5_EveryFailureCounted ==
    \A p \in PromiseIds :
        /\ promises[p].stage # "catch"
              => promises[p].increments = promises[p].failures
        /\ Done(p) /\ ~promises[p].outcome.ok => promises[p].fallback
        /\ promises[p].fallback => promises[p].fallbackAt > maxRetries
        /\ promises[p].stage = "fallback" => retryCount = 0

\* C6: a caller sees an error only from a fetch that tried the fallback, and
\* when the fallback fails every caller of that fetch receives the error.
C6_ErrorOnlyAfterFallback ==
    \A p \in PromiseIds :
        /\ \A r \in promises[p].delivered : ~r.ok => promises[p].fallback
        /\ promises[p].delivered \subseteq {promises[p].outcome}

\* C7: if upstream requests complete, a started fetch settles and clears the
\* in-flight marker; the marker never outlives its fetch; once the awaiters
\* of a successful fetch have resumed (and no other chain is left) the cache
\* holds its snapshot; and a call made once refreshInterval has elapsed since
\* lastFetchTime, with no fetch in flight, starts a fetch.
C7_FetchSettles ==
    /\ (fetchPromise # 0) ~> (fetchPromise = 0)
    /\ [](\A p \in PromiseIds :
            fetchPromise = p => promises[p].stage \notin {"none", "settled"})
    /\ [](\A p \in PromiseIds :
            /\ promises[p].stage = "settled" /\ ~Awaited(p)
            /\ promises[p].outcome.ok
            /\ \A q \in PromiseIds \ {p} : promises[q].stage = "none"
            => lastFetchedData = promises[p].outcome.value)
    /\ [](lastCall.stale => lastCall.kind = "fetch")

C7_Witness ==
    /\ lastCall.stale
    /\ lastCall.kind = "fetch"
    /\ fetchPromise = 0
    /\ promises[lastCall.p].stage = "settled"
    /\ \A q \in PromiseIds \ {lastCall.p} : promises[q].stage = "none"
    /\ promises[lastCall.p].outcome.ok
    /\ lastFetchedData = promises[lastCall.p].outcome.value

-----------------------------------------------------------------------------
(* Properties of the normalizers                                           *)

Returned == normOut # Null /\ normOut.ok

\* a raw field that holds a decimal string
IsNumeric(v) ==
    /\ v.t = "string"
    /\ v.s # <<>>
    /\ \A i \in 1..Len(v.s) : IsDigit(v.s[i])

\* the number a decimal raw field encodes
Decoded(v) == CHOOSE k \in FeeValues \cup PriorityValues : v = Str(Chars(k))

\* every required field of the raw body is present and numeric, and the
\* fallback body's status is "1"
WellFormed(in) ==
    /\ in.body.t = "object"
    /\ IF in.kind = "gasStation"
       THEN \A i \in 1..4 :
              /\ in.body.f[Tiers[i]].t = "object"
              /\ IsNumeric(in.body.f[Tiers[i]].f.maxFee)
              /\ IsNumeric(in.body.f[Tiers[i]].f.maxPriorityFee)
       ELSE /\ in.body.f.status = Str(<<"1">>)
            /\ in.body.f.result.t = "object"
            /\ IsNumeric(in.body.f.result.f.SafeGasPrice)
            /\ IsNumeric(in.body.f.result.f.ProposeGasPrice)
            /\ IsNumeric(in.body.f.result.f.FastGasPrice)

PriceNumbers(snap) ==
    {snap.estimatedPrices[Tiers[i]].maxFeePerGas : i \in 1..4}
    \cup {snap.estimatedPrices[Tiers[i]].maxPriorityFeePerGas : i \in 1..4}

SnapshotNumbers(snap) ==
    {snap.baseFee, snap.networkCongestion}
    \cup {snap.priorityFeeRange[i] : i \in 1..Len(snap.priorityFeeRange)}
    \cup PriceNumbers(snap)

\* C8: a normalizer returns a snapshot whose numeric fields are all numbers,
\* or fails; it fails whenever a required field is absent or non-numeric or
\* the fallback status is not "1".
C8_NoPartialSnapshot ==
    normOut # Null =>
        /\ normOut.ok => \A x \in SnapshotNumbers(normOut.value) : ~IsNaN(x)
        /\ ~WellFormed(normIn) => ~normOut.ok

\* the snapshots the congestion of the current one is compared with
ReferenceSnapshots ==
    LET gs == {NormalizeGasStationData(
                   GasStationBody(GasTier(Str(Chars(f)), Str(Chars(q))),
                                  GasTier(Str(Chars(f)), Str(Chars(q))),
                                  GasTier(Str(Chars(f)), Str(Chars(q))),
                                  GasTier(Str(Chars(f)), Str(Chars(q)))), 0) :
                   f \in FeeValues, q \in PriorityValues}
        ps == {NormalizePolygonscanData(
                   PolygonscanBody(Str(<<"1">>),
                       PolygonscanResult(Str(Chars(f)), Str(Chars(f)),
                                         Str(Chars(f)))), 0) :
                   f \in FeeValues}
    IN  {r.value : r \in {o \in gs \cup ps : o.ok}}

\* C9: a snapshot with baseFee >= 0 has networkCongestion = min(1, baseFee/100),
\* which lies in [0,1], is 1 from baseFee 100 on, and does not decrease when
\* baseFee grows.
C9_CongestionClamp ==
    Returned /\ JsLe(Num(0), normOut.value.baseFee) =>
        LET snap == normOut.value
            b    == snap.baseFee
            c    == snap.networkCongestion
        IN  /\ c = IF JsLe(Num(maxBaseFee), b) THEN Num(1) ELSE Rat(b.n, b.d * maxBaseFee)
            /\ JsLe(Num(0), c) /\ JsLe(c, Num(1))
            /\ JsLe(Num(maxBaseFee), b) => c = Num(1)
            /\ \A o \in ReferenceSnapshots :
                 /\ JsLe(Num(0), o.baseFee) /\ JsLe(o.baseFee, b)
                      => JsLe(o.networkCongestion, c)
                 /\ JsLe(b, o.baseFee) => JsLe(c, o.networkCongestion)

C9_Witness ==
    /\ Returned
    /\ normOut.value.source = "polygonscan"
    /\ JsLt(Num(maxBaseFee), normOut.value.baseFee)
    /\ normOut.value.networkCongestion = Num(1)

\* the raw tier prices are decimal strings of non-negative numbers that do
\* not decrease from the slowest tier to the fastest
AscendingInput(in) ==
    /\ in.body.t = "object"
    /\ IF in.kind = "gasStation"
       THEN /\ \A i \in 1..4 :
                 /\ in.body.f[Tiers[i]].t = "object"
                 /\ IsNumeric(in.body.f[Tiers[i]].f.maxFee)
            /\ \A i \in 1..3 :
                 Decoded(in.body.f[Tiers[i]].f.maxFee)
                    <= Decoded(in.body.f[Tiers[i + 1]].f.maxFee)
       ELSE /\ in.body.f.result.t = "object"
            /\ IsNumeric(in.body.f.result.f.SafeGasPrice)
            /\ IsNumeric(in.body.f.result.f.ProposeGasPrice)
            /\ IsNumeric(in.body.f.result.f.FastGasPrice)
            /\ Decoded(in.body.f.result.f.SafeGasPrice)
                  <= Decoded(in.body.f.result.f.ProposeGasPrice)
            /\ Decoded(in.body.f.result.f.ProposeGasPrice)
                  <= Decoded(in.body.f.result.f.FastGasPrice)

\* C10: from ascending numeric raw prices both normalizers produce tiers with
\* safeLow.maxFeePerGas <= standard <= fast <= fastest.
C10_TierMonotonicity ==
    Returned /\ AscendingInput(normIn) =>
        \A i \in 1..3 :
            JsLe(normOut.value.estimatedPrices[Tiers[i]].maxFeePerGas,
                 normOut.value.estimatedPrices[Tiers[i + 1]].maxFeePerGas)

C10_Witness ==
    /\ Returned
    /\ AscendingInput(normIn)
    /\ normOut.value.source = "polygonscan"
    /\ \A i \in 1..3 :
          JsLt(normOut.value.estimatedPrices[Tiers[i]].maxFeePerGas,
               normOut.value.estimatedPrices[Tiers[i + 1]].maxFeePerGas)

\* C11: a snapshot returned for a raw body whose fee fields are all decimal
\* strings of non-negative numbers has its four tiers, and baseFee, every
\* entry of priorityFeeRange and every tier's maxFeePerGas and
\* maxPriorityFeePerGas are non-negative (a priority fee computed negative
\* having been raised to at least 1).
C11_NonNegativeFields ==
    Returned /\ WellFormed(normIn) =>
        LET snap == normOut.value
        IN  /\ DOMAIN snap.estimatedPrices = {Tiers[i] : i \in 1..4}
            /\ JsLe(Num(0), snap.baseFee)
            /\ \A i \in 1..Len(snap.priorityFeeRange) :
                 JsLe(Num(0), snap.priorityFeeRange[i])
            /\ \A x \in PriceNumbers(snap) : JsLe(Num(0), x)

-----------------------------------------------------------------------------
(* Properties of the optimizer                                             *)

Evaluated == optOut # Null

\* an evaluation of a snapshot whose base fee is a number
EvaluatedNumber == Evaluated /\ ~IsNaN(optIn.gasData.baseFee)

\* the ascending arrangement of a sequence of integers
Ascending(r) ==
    CHOOSE s \in [1..Len(r) -> {r[i] : i \in 1..Len(r)}] :
        /\ \A i \in 1..(Len(r) - 1) : s[i] <= s[i + 1]
        /\ \A v \in {r[i] : i \in 1..Len(r)} :
             Cardinality({i \in 1..Len(r) : s[i] = v})
                = Cardinality({i \in 1..Len(r) : r[i] = v})

\* the table of section 4.3 in tenths: percentile, padding, and the wait in
\* seconds, for an aggressiveness and a congestion
PolicyTable(aggressiveness, congestion) ==
    LET high == JsLt(Rat(7, 10), congestion)
        peak == JsLt(Rat(8, 10), congestion)
    IN  CASE aggressiveness = "conservative" ->
               [percentile |-> IF high THEN 8 ELSE 6, padding |-> 13, wait |-> 15]
          [] aggressiveness = "balanced" ->
               [percentile |-> IF high THEN 6 ELSE 4, padding |-> 12,
                wait |-> IF high THEN 30 ELSE 20]
          [] aggressiveness = "aggressive" ->
               [percentile |-> IF peak THEN 4 ELSE 2, padding |-> 11,
                wait |-> IF peak THEN 60 ELSE 30]

\* the priority fee the table selects from a snapshot
SelectedPriorityFee(aggressiveness, snapshot) ==
    LET range  == [i \in 1..Len(snapshot.priorityFeeRange) |->
                      snapshot.priorityFeeRange[i].n]
        sorted == Ascending(range)
        row    == PolicyTable(aggressiveness, snapshot.networkCongestion)
        index  == (Len(range) * row.percentile) \div 10
    IN  IF index < Len(range) THEN sorted[index + 1] ELSE sorted[1]

\* ceil(fee * padding), the padding given in tenths
Padded(fee, padding) == -((-(fee * padding)) \div 10)

ReferenceBaseFees == {0, 30, 48, 49, 50, 51, 90, 130}

\* optimized.maxFeePerGas under the policy and for the range and congestion
\* of the evaluation, had the base fee been b
MaxFeeAt(b) ==
    CalculateOptimalGasSettings(
        optOut.policy, DFromInt(b),
        [i \in 1..Len(optIn.gasData.priorityFeeRange) |->
            ToDouble(optIn.gasData.priorityFeeRange[i])],
        ToDouble(optIn.gasData.networkCongestion)).maxFeePerGas

\* C13: with congestion, priorityFeeRange, intent and policy fixed, a larger
\* baseFee never yields a smaller optimized.maxFeePerGas.
C13_MaxFeeMonotone ==
    EvaluatedNumber =>
        \A b \in ReferenceBaseFees :
            /\ optIn.gasData.baseFee.n <= b
                  => ~DLt(MaxFeeAt(b), optOut.result.optimized.maxFeePerGas)
            /\ b <= optIn.gasData.baseFee.n
                  => ~DLt(optOut.result.optimized.maxFeePerGas, MaxFeeAt(b))

C13_Witness ==
    /\ EvaluatedNumber
    /\ optOut.policy.aggressiveness = "aggressive"
    /\ optIn.gasData.baseFee.n = 48
    /\ DLt(MaxFeeAt(30), optOut.result.optimized.maxFeePerGas)
    /\ DLt(optOut.result.optimized.maxFeePerGas, MaxFeeAt(49))

\* the default limits of section 4.3, step 2
TypeDefault(type) ==
    CASE type = "transfer"            -> 21000
      [] type = "erc20Transfer"       -> 65000
      [] type = "swap"                -> 200000
      [] type = "nftMint"             -> 250000
      [] type = "nftTransfer"         -> 100000
      [] type = "contractInteraction" -> 150000
      [] OTHER                        -> 100000

NoUsableLimit(tx) ==
    tx.gasLimit = Undefined \/ DToInt(tx.gasLimit) < 21000

\* the supplied limit is below 80% of the type's default
Undersized(tx) == 10 * DToInt(tx.gasLimit) < 8 * TypeDefault(tx.type)

\* C14: optimized.gasLimit is the type's default (100000 for an
\* unknown type) when no limit or one below 21000 was supplied, the type's
\* default when the supplied limit is below 80% of it, and the supplied limit
\* otherwise.
C14_GasLimitRule ==
    Evaluated =>
        optOut.result.optimized.gasLimit =
            IF NoUsableLimit(optIn.tx) \/ Undersized(optIn.tx)
            THEN DFromInt(TypeDefault(optIn.tx.type))
            ELSE optIn.tx.gasLimit

\* C15: savings.savingsInMatic is the original block's cost less the optimized
\* block's, never below 0, each cost being its block's maxFeePerGas * gasLimit
\* / 1e9, and savings.savingsPercent is that saving over the original cost
\* times 100, or 0 when the original cost is not positive.
C15_SavingsFromBlocks ==
    Evaluated =>
        LET r == optOut.result
            originalCost  == r.original.estimatedCostInMatic
            optimizedCost == r.optimized.estimatedCostInMatic
        IN  /\ originalCost =
                   EstimateCost(r.original.maxFeePerGas, r.original.gasLimit)
            /\ optimizedCost =
                   EstimateCost(r.optimized.maxFeePerGas, r.optimized.gasLimit)
            /\ r.savings.savingsInMatic =
                   DMax(DZero, DSub(originalCost, optimizedCost))
            /\ r.savings.savingsPercent =
                   IF DLt(DZero, originalCost)
                   THEN DMul(DDiv(r.savings.savingsInMatic, originalCost),
                             DFromInt(100))
                   ELSE DZero

\* C16: fee.feeInMatic is 0 whenever savings.savingsInMatic is 0, it is
\* savingsInMatic * feePercent / 100 for any other amount, with feePercent of
\* the policy in force at the evaluation, and a fee other than 0 is charged
\* only on savings above 0.
C16_FeeOnlyOnSavings ==
    Evaluated =>
        LET r == optOut.result
            savingsInMatic == r.savings.savingsInMatic
        IN  /\ r.fee.feePercent = optOut.policy.feePercent
            /\ savingsInMatic = DZero => r.fee.feeInMatic = DZero
            /\ savingsInMatic # DZero /\ ~savingsInMatic.nan =>
                   r.fee.feeInMatic =
                       DDiv(DMul(savingsInMatic,
                                 DFromInt(optOut.policy.feePercent)),
                            DFromInt(100))
            /\ r.fee.feeInMatic # DZero => DLt(DZero, savingsInMatic)

\* a fee charged on positive savings under an updated feePercent
C16_Witness ==
    /\ Evaluated
    /\ optOut.policy.feePercent = 100
    /\ DLt(DZero, optOut.result.savings.savingsInMatic)
    /\ DLt(DZero, optOut.result.fee.feeInMatic)

C18_SavingsLevel ==
    Evaluated =>
        LET r          == optOut.result
            percent    == r.savings.savingsPercent
            congestion == ToDouble(optIn.gasData.networkCongestion)
            above(k)   == DLt(DFromInt(k), percent)
            from(k)    == DLe(DFromInt(k), percent)
        IN  /\ r.savings.savingsLevel =
                   CASE above(20) \/ (DLt(Lit(7, 10), congestion) /\ above(10))
                          -> "high"
                     [] OTHER ->
                          IF from(10) THEN "medium"
                          ELSE IF from(5) THEN "low" ELSE "none"
            /\ r.shouldOptimize =
                   (/\ from(optOut.policy.minSavingsPercent)
                    /\ DLe(r.optimized.estimatedWaitTime,
                           DFromInt(optOut.policy.maxWaitTime)))

\* savings of at most 20 percent ranked "high" for the congestion
C18_Witness ==
    /\ Evaluated
    /\ optOut.result.savings.savingsLevel = "high"
    /\ DLe(optOut.result.savings.savingsPercent, DFromInt(20))
    /\ DLt(Lit(7, 10), ToDouble(optIn.gasData.networkCongestion))

\* C19: netSavings is savings.savingsInMatic less fee.feeInMatic and, for a
\* policy whose feePercent is from 0 to 100, the fee is at least 0 and at
\* most the savings, and netSavings is at least 0.
C19_NetSavings ==
    Evaluated =>
        LET r == optOut.result
        IN  /\ r.netSavings = DSub(r.savings.savingsInMatic, r.fee.feeInMatic)
            /\ optOut.policy.feePercent \in 0..100 =>
                   /\ DLe(DZero, r.fee.feeInMatic)
                   /\ DLe(r.fee.feeInMatic, r.savings.savingsInMatic)
                   /\ DLe(DZero, r.netSavings)

\* C20: updateConfig replaces exactly the policy fields it is given and
\* leaves the others as they were, so the policy is always the defaults
\* overridden by the latest write to each field; an evaluation uses the
\* policy current when it is made, and a result already returned is not
\* changed by an update.
C20_PolicyUpdates ==
    [][/\ config' # config =>
              /\ \E partial \in ConfigUpdates :
                     \A f \in Fields :
                         config'[f] = IF f \in DOMAIN partial THEN partial[f]
                                      ELSE config[f]
              /\ optOut' = optOut
       /\ \A f \in Fields : config'[f] = written'[f]
       /\ optOut' # optOut =>
              /\ optOut'.policy = written
              /\ optOut'.result = OptimizeGas(written, optIn.gasData, optIn.tx)
      ]_vars

\* two updates of different fields after an evaluation under the defaults
C20_Witness ==
    /\ Evaluated
    /\ optOut.policy = DefaultConfig
    /\ config.aggressiveness = "aggressive"
    /\ config.feePercent = 100
    /\ config.maxWaitTime = 15

TransactionTypes ==
    {"transfer", "erc20Transfer", "swap", "nftMint", "nftTransfer",
     "contractInteraction"}

\* a number that is defined: neither undefined nor NaN
Defined(v) == v # Undefined /\ ~v.nan

\* a field of an intent that is absent or a number of at least 0
OptionalAmount(v) == v = Undefined \/ DLe(DZero, v)

\* a policy whose values are in their documented ranges
InRange(policy) ==
    /\ policy.aggressiveness \in {"conservative", "balanced", "aggressive"}
    /\ policy.maxWaitTime > 0
    /\ policy.minSavingsPercent \in 0..100
    /\ policy.feePercent \in 0..100

\* the documented input domain: a snapshot of the data model, an intent of
\* a known type with optional non-negative fields, and a policy in range
InDomain(snapshot, tx, policy) ==
    /\ JsLe(Num(0), snapshot.baseFee)
    /\ \A i \in 1..Len(snapshot.priorityFeeRange) :
           JsLe(Num(0), snapshot.priorityFeeRange[i])
    /\ JsLe(Num(0), snapshot.networkCongestion)
    /\ JsLe(snapshot.networkCongestion, Num(1))
    /\ tx.type \in TransactionTypes
    /\ OptionalAmount(tx.gasLimit)
    /\ OptionalAmount(tx.maxFeePerGas)
    /\ OptionalAmount(tx.maxPriorityFeePerGas)
    /\ InRange(policy)

\* C22: for every snapshot, intent and policy of the documented domain the
\* evaluation returns a result whose numeric fields are all defined numbers.
C22_Total ==
    Evaluated /\ InDomain(optIn.gasData, optIn.tx, optOut.policy) =>
        LET r == optOut.result
        IN  /\ Defined(r.original.maxFeePerGas)
            /\ Defined(r.original.maxPriorityFeePerGas)
            /\ Defined(r.original.gasLimit)
            /\ Defined(r.original.estimatedCostInMatic)
            /\ Defined(r.optimized.maxFeePerGas)
            /\ Defined(r.optimized.maxPriorityFeePerGas)
            /\ Defined(r.optimized.gasLimit)
            /\ Defined(r.optimized.estimatedCostInMatic)
            /\ Defined(r.optimized.estimatedWaitTime)
            /\ Defined(r.savings.savingsInMatic)
            /\ Defined(r.savings.savingsPercent)
            /\ Defined(r.fee.feeInMatic)
            /\ Defined(r.netSavings)

\* C23: an evaluation under a policy holding an out-of-range value is
\* rejected or uses a value clamped into the range: a result it returns
\* reports a feePercent from 0 to 100 and a fee that does not exceed the
\* savings.
C23_DefensivePolicy ==
    Evaluated /\ ~InRange(optOut.policy) =>
        /\ optOut.result.fee.feePercent \in 0..100
        /\ ~DLt(optOut.result.savings.savingsInMatic,
                optOut.result.fee.feeInMatic)

\* C24: the step in which a call ends in failure hands the error to its
\* caller and leaves the cached snapshot and the recorded fetch time as they
\* were; the hook keeps its gasData and records the error.  The cache
\* changes only when the call that started a fetch returns with its snapshot.
C24_FailureLeavesCache ==
    [][\A c \in Callers :
           callers[c].pc = "awaiting" /\ callers'[c].pc = "idle" =>
               LET p == callers[c].p
                   r == promises[p].outcome
               IN  IF r.ok
                   THEN \/ lastFetchedData' = lastFetchedData
                           /\ lastFetchTime' = lastFetchTime
                        \/ callers[c].initiator /\ lastFetchedData' = r.value
                   ELSE /\ r \in promises'[p].delivered
                        /\ lastFetchedData' = lastFetchedData
                        /\ lastFetchTime' = lastFetchTime
                        /\ gasData' = gasData
                        /\ error' = [message |-> r.error]
      ]_vars

\* a call has ended in failure with a snapshot in the cache and in the hook
C24_Witness ==
    /\ error # Null
    /\ lastFetchedData # Null
    /\ gasData = lastFetchedData
    /\ \A c \in Callers : callers[c].pc = "idle"

\* a successful fetch whose in-flight marker is cleared (its finally
\* callback ran) while the call that started it has not resumed yet
ClearedNotResumed(c) ==
    /\ callers[c].pc = "awaiting"
    /\ callers[c].initiator
    /\ promises[callers[c].p].stage = "settled"
    /\ promises[callers[c].p].outcome.ok
    /\ fetchPromise # callers[c].p

\* C25: whenever a successful fetch's in-flight marker has been cleared, the
\* cache holds that fetch's snapshot and fetch time, and no call starts a
\* second fetch while a settled successful fetch is within the refresh
\* interval.
C25_ClearedMeansCached ==
    \A c \in Callers :
        ClearedNotResumed(c) =>
            /\ lastFetchedData = promises[callers[c].p].outcome.value
            /\ lastFetchTime = callers[c].now
            /\ ~(lastCall.kind = "fetch" /\ lastCall.p # callers[c].p)

\* a call that arrived after a successful fetch settled started a second fetch
C25_SecondFetch ==
    \E c \in Callers :
        /\ ClearedNotResumed(c)
        /\ clock - callers[c].now < refreshInterval
        /\ lastCall.kind = "fetch"
        /\ lastCall.p # callers[c].p
        /\ fetchPromise = lastCall.p

\* C26: a primary request that succeeds leaves the retry counter at zero,
\* and the fallback is requested only with more than maxRetries primary
\* failures since the last primary success.
C26_ConsecutiveOnly ==
    [][\A p \in PromiseIds :
           /\ /\ promises[p].stage \in {"primary", "retry"}
              /\ promises'[p].stage = "finally"
              /\ promises'[p].outcome.ok
              => retryCount' = 0
           /\ promises[p].stage = "catch" /\ promises'[p].stage = "fallback"
              => consecutive > maxRetries
      ]_vars

\* the fallback is requested after a single primary failure since the last
\* primary success
C26_EarlyFallback ==
    \E p \in PromiseIds :
        /\ promises[p].stage = "catch"
        /\ UseFallback(retryCount + 1)
        /\ consecutive = 1

\* C27: under a policy whose minSavingsPercent lies in 0..100, a verdict to
\* optimize comes with savings above zero.
C27_VerdictNeedsSavings ==
    Evaluated /\ optOut.policy.minSavingsPercent \in 0..100
              /\ optOut.result.shouldOptimize
        => DLt(DZero, optOut.result.savings.savingsInMatic)

\* the evaluation HomePage makes: a Gas Station snapshot and an intent whose
\* original maxFeePerGas is the snapshot's standard-tier maxFeePerGas
FromHomePage ==
    /\ Evaluated
    /\ "estimatedPrices" \in DOMAIN optIn.gasData
    /\ optIn.gasData.source = "gasStation"
    /\ optIn.tx.maxFeePerGas =
           ToDouble(optIn.gasData.estimatedPrices.standard.maxFeePerGas)

NonDecreasing(range) ==
    \A i \in 1..(Len(range) - 1) : DLe(ToDouble(range[i]), ToDouble(range[i + 1]))

\* C28: for HomePage's evaluation of a Gas Station snapshot whose priority
\* fees do not decrease from safeLow to fastest, under a conservative or
\* balanced policy, the optimized maxFeePerGas is at least the original one,
\* savings and fee are zero, and with minSavingsPercent above zero the
\* verdict is not to optimize.
C28_HomePageNeverSaves ==
    /\ FromHomePage
    /\ NonDecreasing(optIn.gasData.priorityFeeRange)
    /\ optOut.policy.aggressiveness \in {"conservative", "balanced"}
    => /\ DLe(optOut.result.original.maxFeePerGas,
              optOut.result.optimized.maxFeePerGas)
       /\ optOut.result.savings.savingsInMatic = DZero
       /\ optOut.result.fee.feeInMatic = DZero
       /\ optOut.policy.minSavingsPercent > 0 => ~optOut.result.shouldOptimize

-----------------------------------------------------------------------------
(* Properties of the wallet                                                *)

\* C29: sendTransaction hands a transaction to the signer only in a wallet
\* state with isConnected, a signer and isPolygonNetwork; in any other state
\* it throws 'Wallet not connected' or 'Not connected to Polygon network',
\* and it never changes the wallet state.
C29_SendGuarded ==
    [][sendResult' # sendResult =>
           /\ state' = state
           /\ sendResult'.ok =>
                  /\ state.isConnected
                  /\ state.signer # Null
                  /\ state.isPolygonNetwork
                  /\ sendResult'.value.signer = state.signer
           /\ ~(state.isConnected /\ state.signer # Null /\ state.isPolygonNetwork) =>
                  sendResult' \in {Thrown("Wallet not connected"),
                                   Thrown("Not connected to Polygon network")}
      ]_vars

\* a transaction was forwarded, and the wallet has since left Polygon
C29_Witness ==
    /\ sendResult # Null
    /\ sendResult.ok
    /\ state.isConnected
    /\ ~state.isPolygonNetwork

\* C30: isConnected is true exactly when account is not null, and a signer
\* is held only while isConnected is true.
C30_SignerOnlyWhenConnected ==
    /\ state.isConnected <=> state.account # Null
    /\ state.signer # Null => state.isConnected

====
